---- MODULE Spec2Model ----
(***************************************************************************)
(* Collection lifecycle and query configuration of the RAG pipeline:       *)
(* the configuration registries, the Chroma collection store, the          *)
(* ChromaDBManager, the pipeline facade (rag_pipeline/core/core.py), the   *)
(* legacy pipeline (rag_pipeline/core.py), the RAGQueryEngine, the         *)
(* index-creation script and the inspection tool's delete.                 *)
(***************************************************************************)
EXTENDS Integers, Sequences, FiniteSets, TLC

(* ------------------------------ bounds -------------------------------- *)
\* largest number of stored items a collection holds in the model
MaxCount == 2
\* largest number of .txt files in the data directory a run starts with
MaxDocs == 2
\* largest number of questions typed in one interactive session of the query CLI
MaxAsk == 2
\* largest number of documents an added extractor makes of one file
MaxYield == 1

(* ---------------------------- configuration --------------------------- *)
None == "None"
Absent == -1

MODEL_CONFIGS ==
  [ default |-> [provider |-> "openai", llm_model |-> "gpt-4o",
                 embedding_model |-> "text-embedding-3-large"],
    fast |-> [provider |-> "openai", llm_model |-> "gpt-4",
              embedding_model |-> "text-embedding-3-small"],
    legacy |-> [provider |-> "openai", llm_model |-> "gpt-3.5-turbo",
                embedding_model |-> "text-embedding-3-small"],
    azure_default |-> [provider |-> "azure", llm_model |-> "gpt-4",
                       embedding_model |-> "text-embedding-ada-002",
                       api_base |-> "YOUR_AZURE_OPENAI_ENDPOINT",
                       api_version |-> "2024-02-15-preview"],
    azure_fast |-> [provider |-> "azure", llm_model |-> "gpt-35-turbo",
                    embedding_model |-> "text-embedding-ada-002",
                    api_base |-> "YOUR_AZURE_OPENAI_ENDPOINT",
                    api_version |-> "2024-02-15-preview"] ]

FILE_TYPES ==
  [ default |-> <<".pdf", ".docx", ".txt", ".md">>,
    text_only |-> <<".txt", ".md">>,
    documents |-> <<".pdf", ".docx">> ]

CHROMA_CONFIG ==
  [ collection_prefix |-> "rag_collection",
    persist_directory |-> "data/chroma_db" ]

QUERY_CONFIG ==
  [ default_response_mode |-> "compact",
    supported_response_modes |-> <<"compact", "refine", "tree_summarize">> ]

SeqRange(s) == { s[i] : i \in 1..Len(s) }

\* get_model_config with the unknown-name check dropped: falls back to "default"
get_model_config_fallback(config_name) ==
  IF config_name \notin DOMAIN MODEL_CONFIGS
    THEN [err |-> None, val |-> MODEL_CONFIGS["default"]]
    ELSE [err |-> None, val |-> MODEL_CONFIGS[config_name]]

get_model_config(config_name) ==
  IF config_name \notin DOMAIN MODEL_CONFIGS
    THEN [err |-> "ConfigurationError", val |-> None]
    ELSE [err |-> None, val |-> MODEL_CONFIGS[config_name]]

get_file_types(config_name) ==
  IF config_name \notin DOMAIN FILE_TYPES
    THEN [err |-> "ConfigurationError", val |-> None]
    ELSE [err |-> None, val |-> FILE_TYPES[config_name]]

(* ------------------------------ inputs -------------------------------- *)
Facades == {"f1"}
Legacys == {"l1"}
Engines == {"e1"}
Slots == Facades \cup Legacys \cup Engines
Handlers == {"h1"}
\* two facades whose load_documents calls run at the same time
Racers == {"f1", "f2"}

\* names a caller passes to the resolvers: every registered name and one that is not
ModelNameInputs == DOMAIN MODEL_CONFIGS \cup {"balanced"}
FileTypeNameInputs == DOMAIN FILE_TYPES \cup {"images"}
\* constructor arguments
CtorModelInputs == {"default", "balanced"}
CtorFileTypeInputs == {"default", "images"}
CtorNameInputs == {None, "test_documents"}
\* two registered configurations with different embedding models
\* (text-embedding-3-small and text-embedding-ada-002: vectors of one length)
MixModelInputs == {"fast", "azure_default"}
Questions == {"q1"}
ModeInputs == {None, "refine", "bogus"}

\* a manager that names every derived collection by the prefix alone
ManagerName_prefixonly(collection_name, model_config) ==
  IF collection_name = None
    THEN CHROMA_CONFIG.collection_prefix
    ELSE collection_name

\* ChromaDBManager.__init__: the collection name the manager works on
ManagerName(collection_name, model_config) ==
  IF collection_name = None
    THEN CHROMA_CONFIG.collection_prefix \o "_" \o model_config
    ELSE collection_name

Names == { ManagerName(n, c) : n \in CtorNameInputs,
                               c \in CtorModelInputs \cap DOMAIN MODEL_CONFIGS }

\* every collection name a manager of a registered configuration can work on
AllNames == { ManagerName(n, c) : n \in CtorNameInputs, c \in DOMAIN MODEL_CONFIGS }

\* ChromaDBManager.__init__: the embedding model of a registered configuration
EmbeddingOf(model_config) == MODEL_CONFIGS[model_config].embedding_model

\* what a read of the data directory gives instead of a number of documents:
\* the data directory does not exist
Missing == -1
\* the data directory exists and the read finds no file with an accepted extension
NoFiles == -2
\* where a build over what a read gave can fail: after k of its documents
FailPoints(dir) == IF dir < 0 THEN {0} ELSE 0..dir

\* the files examples/generate_test_docs.py writes of each format: two
\* document sets, two versions each
GeneratedPerFormat == 4

\* a data directory: whether it exists, its own top-level .txt files, its
\* top-level .pdf files without a page (the PDF reader makes no document of
\* them), its .txt files in sub-directories, and whether the files of the
\* test-document generator are in it.  Files with other extensions than
\* the accepted ones are never read and are left out.
Dir(e, t, v, d, g) == [exists |-> e, txt |-> t, void |-> v, deep |-> d, generated |-> g]

\* the directories a run starts with: none, an empty one, one page-less
\* .pdf, one .txt in a sub-directory, or some top-level .txt files
InitDirs ==
  {Dir(FALSE, 0, 0, 0, FALSE), Dir(TRUE, 0, 0, 0, FALSE), Dir(TRUE, 0, 1, 0, FALSE),
   Dir(TRUE, 0, 0, 1, FALSE)} \cup {Dir(TRUE, n, 0, 0, FALSE) : n \in 1..MaxDocs}

\* the files with extension e directly in the directory
TopFiles(d, e) ==
  IF e = ".txt" THEN d.txt + (IF d.generated THEN GeneratedPerFormat ELSE 0)
  ELSE IF e = ".pdf" THEN d.void + (IF d.generated THEN GeneratedPerFormat ELSE 0)
  ELSE IF e = ".docx" THEN (IF d.generated THEN GeneratedPerFormat ELSE 0)
  ELSE 0

\* the files with extension e a read of the directory visits: those in
\* sub-directories only when the read is recursive
FilesRead(d, e, recursive) ==
  TopFiles(d, e) + (IF recursive /\ e = ".txt" THEN d.deep ELSE 0)

\* the documents the visited files with extension e yield: an extractor
\* added for the extension makes fx[e] documents of each file; the reader the
\* loader was built with makes one of each file that has content
Extracted(d, e, fx, recursive) ==
  IF fx[e] # Absent THEN FilesRead(d, e, recursive) * fx[e]
  ELSE FilesRead(d, e, recursive) - (IF e = ".pdf" THEN d.void ELSE 0)

\* the extension e is one of the required extensions exts
Required(exts, e) == \E i \in DOMAIN exts : exts[i] = e

\* the number of files a read with the required extensions exts visits
\* (the directory holds no .md file)
Matching(d, exts, recursive) ==
  (IF Required(exts, ".txt") THEN FilesRead(d, ".txt", recursive) ELSE 0)
  + (IF Required(exts, ".pdf") THEN FilesRead(d, ".pdf", recursive) ELSE 0)
  + (IF Required(exts, ".docx") THEN FilesRead(d, ".docx", recursive) ELSE 0)

\* the number of documents the visited files yield
Documents(d, exts, fx, recursive) ==
  (IF Required(exts, ".txt") THEN Extracted(d, ".txt", fx, recursive) ELSE 0)
  + (IF Required(exts, ".pdf") THEN Extracted(d, ".pdf", fx, recursive) ELSE 0)
  + (IF Required(exts, ".docx") THEN Extracted(d, ".docx", fx, recursive) ELSE 0)

\* SimpleDirectoryReader(input_dir, required_exts, file_extractor,
\* recursive).load_data(): raises on a missing directory and on a directory
\* in which it finds no file with a required extension
SimpleDirectoryReader(d, exts, fx, recursive) ==
  IF ~d.exists THEN Missing
  ELSE IF Matching(d, exts, recursive) = 0 THEN NoFiles
  ELSE Documents(d, exts, fx, recursive)

\* the extractors a loader is built with: none added for any extension
\* (.pdf and .docx are read by PDFReader and DocxReader)
DefaultExtractors == [e \in {".pdf", ".docx", ".txt", ".md"} |-> Absent]

\* DataLoader.__init__: recursive is False unless the caller asks for it
DefaultRecursive == FALSE

(* ------------------------------- state -------------------------------- *)
VARIABLES
  store,     \* the persistent Chroma store: collection name -> item count, or Absent
  storeDir,  \* whether the store's directory (persist_directory) exists
  obj,       \* the pipeline / engine objects of the process
  dataDir,   \* the data directory and the files in it
  embedSetting, \* Settings.embed_model, the process-wide embedding model
  vectors,   \* collection name -> the embedding models its vectors come from
  last,      \* what the last operation did and returned
  prompt,    \* the inspection tool: idle, or waiting at a confirmation prompt
  session,   \* the interactive query CLI: idle, or waiting at its question prompt
  race,      \* per facade: where a load_documents call taken statement by
             \* statement stands, and what it has read so far
  extractors \* the stand-alone DataLoader's file_extractor: extension -> the
             \* number of documents the extractor added for it makes of one
             \* file, or Absent when none was added

vars == <<store, storeDir, obj, dataDir, embedSetting, vectors, last, prompt, session, race, extractors>>

\* no configuration entry / no extension list returned
NoConfig == [provider |-> None, llm_model |-> None, embedding_model |-> None]
NoExts == <<>>

\* named: the constructor was given an explicit collection name
Unmade == [made |-> FALSE, collection_name |-> None, mgr |-> None, index |-> None,
           cfg |-> None, named |-> FALSE, file_types |-> NoExts]

NoOp == [op |-> "init", who |-> None, arg |-> None, mode |-> None,
         outcome |-> None, usedMode |-> None, engineMade |-> FALSE,
         engineCalls |-> 0, creates |-> 0, embedded |-> 0, path |-> None,
         rep |-> FALSE, before |-> 0, cfg |-> NoConfig, exts |-> NoExts,
         cname |-> None, coll |-> None, res |-> None, docs |-> 0,
         caught |-> None, shown |-> FALSE, trace |-> FALSE, listed |-> FALSE,
         listErr |-> FALSE, debug |-> FALSE, listOnly |-> FALSE, asks |-> 0,
         force |-> FALSE, answer |-> None, raised |-> FALSE,
         success |-> FALSE, fail |-> None, ok |-> FALSE, had |-> FALSE,
         tried |-> FALSE, built |-> 0]

\* the tool is not waiting for an answer
NoPrompt == [pc |-> "idle", name |-> None, count |-> 0, listed |-> {}]

\* no interactive run of the query CLI is under way
\* no load_documents call of the facade is under way
NoRace == [pc |-> "idle", count |-> 0, docs |-> 0, embedded |-> 0, err |-> None]

NoSession == [pc |-> "idle", engine |-> Unmade, mode |-> None, debug |-> FALSE,
              answered |-> 0]

Init ==
  /\ store = [n \in AllNames |-> Absent]
  /\ storeDir = FALSE
  /\ obj = [s \in Slots \cup Handlers \cup Racers |-> Unmade]
  /\ prompt = NoPrompt
  /\ session = NoSession
  /\ race = [f \in Racers |-> NoRace]
  /\ extractors = DefaultExtractors
  /\ dataDir \in InitDirs
  /\ embedSetting = None
  /\ vectors = [n \in AllNames |-> {}]
  /\ last = NoOp

(* ------------------------ ChromaDBManager ----------------------------- *)
\* a constructor that opens its collection without creating it
get_or_create_collection_getonly(st, n) ==
  st

\* chroma_client.get_or_create_collection in ChromaDBManager.__init__
get_or_create_collection(st, n) ==
  IF st[n] = Absent THEN [st EXCEPT ![n] = 0] ELSE st

\* ChromaDBManager.__init__: resolves the model configuration, settles the
\* collection name and gets or creates the collection
manager_init(st, collection_name, model_config) ==
  IF get_model_config(model_config).err # None
    THEN [err |-> "ConfigurationError", store |-> st, name |-> None]
  ELSE LET n == ManagerName(collection_name, model_config) IN
       [err |-> None, store |-> get_or_create_collection(st, n), name |-> n]

\* the methods class ChromaDBManager defines
ManagerMethods == {"__init__", "create_index", "get_existing_index"}

\* the lookup of a method on a ChromaDBManager instance: a name the class
\* does not define raises AttributeError
manager_getattr(name) ==
  IF name \in ManagerMethods THEN None ELSE "AttributeError"

\* get_document_count that reads the count of an absent collection as it is
\* kept
get_document_count_raw(st, n) ==
  st[n]

\* ChromaDBManager.get_document_count as the specification (section 4.3)
\* describes it; db/chroma_manager.py does not define it
get_document_count(st, n) ==
  IF st[n] = Absent THEN 0 ELSE st[n]

\* delete_collection that takes an absent collection for a deleted one
delete_collection_silent(st, n) ==
  [err |-> None, store |-> [st EXCEPT ![n] = Absent]]

\* ChromaDBManager.delete_collection as the specification (section 4.3)
\* describes it; db/chroma_manager.py does not define it
delete_collection(st, n) ==
  IF st[n] = Absent
    THEN [err |-> "CollectionNotFoundError", store |-> st]
    ELSE [err |-> None, store |-> [st EXCEPT ![n] = Absent]]

\* get_existing_index without the empty-collection check
get_existing_index_noempty(st, n) ==
  IF st[n] = Absent THEN None ELSE "Index"

\* ChromaDBManager.get_existing_index
get_existing_index(st, n) ==
  IF st[n] = Absent THEN None
  ELSE IF st[n] = 0 THEN None
  ELSE "Index"

\* create_index that removes what it stored when the delegated call fails
create_index_rollback(st, n, docs, k) ==
  IF docs = 0 THEN [err |-> None, store |-> st, index |-> "Index", embedded |-> 0]
  ELSE IF st[n] = Absent
    THEN [err |-> "ProviderError", store |-> st, index |-> None, embedded |-> 0]
  ELSE IF k < docs
    THEN [err |-> "ProviderError", store |-> st, index |-> None, embedded |-> k]
  ELSE [err |-> None, store |-> [st EXCEPT ![n] = @ + docs],
        index |-> "Index", embedded |-> docs]

\* ChromaDBManager.create_index: embeds and stores the documents one after the
\* other; k is the number stored when the delegated embedding/store call
\* fails (k = docs: no failure).  No guard on the current count, no rollback.
create_index(st, n, docs, k) ==
  IF docs = 0 THEN [err |-> None, store |-> st, index |-> "Index", embedded |-> 0]
  ELSE IF st[n] = Absent
    THEN [err |-> "ProviderError", store |-> st, index |-> None, embedded |-> 0]
  ELSE IF k < docs
    THEN [err |-> "ProviderError", store |-> [st EXCEPT ![n] = @ + k],
          index |-> None, embedded |-> k]
  ELSE [err |-> None, store |-> [st EXCEPT ![n] = @ + docs],
        index |-> "Index", embedded |-> docs]

\* the collections the store lists
Present(st) == {m \in DOMAIN st : st[m] # Absent}

\* chromadb.PersistentClient(path) creates the store's directory when it is
\* missing, and every manager asks for its collection right after it has
\* opened the store: the directory exists once a collection does, and it
\* stays when the collections are deleted
DirAfter(st) == storeDir \/ Present(st) # {}

\* list_available_collections opens the store before it lists: the
\* directory exists after a listing; when the listing raised, the open
\* or a later call did
DirAfterListing(st, listed, listErr) ==
  IF listed /\ ~listErr THEN {TRUE}
  ELSE IF listed THEN {DirAfter(st), TRUE}
  ELSE {DirAfter(st)}

\* collection.count() of a collection, 0 for one that is not there
Held(st, n) == IF st[n] = Absent THEN 0 ELSE st[n]

\* the store stays within the model's bound
Bounded(st) == \A n \in DOMAIN st : st[n] <= MaxCount

\* VectorStoreIndex.from_documents embeds with Settings.embed_model: the
\* vectors of the embedded documents come from the process-wide model
AddVectors(vec, n, embedded, model) ==
  IF embedded > 0 THEN [vec EXCEPT ![n] = @ \cup {model}] ELSE vec

\* a deleted collection keeps no vectors
Prune(vec, st) == [n \in DOMAIN vec |-> IF st[n] = Absent THEN {} ELSE vec[n]]

(* --------------------------- DataLoader ------------------------------- *)
\* engine/data_loader.py DataLoader.load_documents: own: the loader's file
\* types, file_types: the caller's list (NoExts: none given), fx: the
\* loader's extractors
engine_load_documents(d, own, file_types, fx, recursive) ==
  IF ~d.exists THEN [err |-> "DirectoryNotFoundError", docs |-> 0]
  ELSE LET exts == IF file_types = NoExts THEN own ELSE file_types
           r == SimpleDirectoryReader(d, exts, fx, recursive) IN
       IF r = NoFiles THEN [err |-> "NoFilesFoundError", docs |-> 0]
       ELSE [err |-> None, docs |-> r]

\* rag_pipeline/data_loader.py DataLoader.load_documents: no check of its
\* own, the recursive SimpleDirectoryReader it builds raises on a missing
\* directory and on a directory without a matching file
legacy_loader_load_documents(d, own, file_types) ==
  LET exts == IF file_types = NoExts THEN own ELSE file_types
      r == SimpleDirectoryReader(d, exts, DefaultExtractors, TRUE) IN
  IF r = Missing THEN [err |-> "DirectoryNotFoundError", docs |-> 0]
  ELSE IF r = NoFiles THEN [err |-> "NoFilesFoundError", docs |-> 0]
  ELSE [err |-> None, docs |-> r]

\* the lists a caller passes to load_documents: none, or a registered one
FileTypeLists == {NoExts} \cup {FILE_TYPES[c] : c \in DOMAIN FILE_TYPES}

\* load_documents of a loader built with the default file types, called on
\* its own
LoaderLoad ==
  \E which \in {"engine_loader", "legacy_loader"}, ft \in FileTypeLists :
    LET own == get_file_types("default").val
        r == IF which = "engine_loader"
               THEN engine_load_documents(dataDir, own, ft, extractors, DefaultRecursive)
               ELSE legacy_loader_load_documents(dataDir, own, ft) IN
    /\ last' = [NoOp EXCEPT !.op = "loader_load", !.who = which,
                            !.outcome = IF r.err = None THEN "ok" ELSE r.err,
                            !.exts = IF ft = NoExts THEN own ELSE ft,
                            !.docs = r.docs]
    /\ UNCHANGED <<store, storeDir, obj, dataDir, embedSetting, vectors, prompt, session, race, extractors>>

\* the extensions callers name, with and without the leading dot
ExtensionInputs == {"txt", ".txt", ".pdf", "docx"}

\* add_file_extractor: a dot is put in front of an extension without one
\* and the extractor is kept for that extension
add_file_extractor(fx, extension, extractor) ==
  LET key == IF extension = "txt" THEN ".txt"
             ELSE IF extension = "pdf" THEN ".pdf"
             ELSE IF extension = "docx" THEN ".docx"
             ELSE extension IN
  [fx EXCEPT ![key] = extractor]

\* DataLoader.add_file_extractor on the stand-alone loader; yield: the
\* number of documents the extractor makes of one file
AddFileExtractor ==
  \E extension \in ExtensionInputs, yield \in 0..MaxYield :
    /\ extractors' = add_file_extractor(extractors, extension, yield)
    /\ last' = [NoOp EXCEPT !.op = "add_file_extractor", !.who = "engine_loader",
                            !.arg = extension, !.docs = yield]
    /\ UNCHANGED <<store, storeDir, obj, dataDir, embedSetting, vectors, prompt, session, race>>

(* ------------ test documents (examples/generate_test_docs.py) --------- *)
\* main: creates the data directory when it is missing and writes its
\* files into it, GeneratedPerFormat each of .txt, .docx and .pdf, under
\* names of their own; the files that were there stay
generate_test_docs(d) == [d EXCEPT !.exists = TRUE, !.generated = TRUE]

GenerateTestDocs ==
  /\ dataDir' = generate_test_docs(dataDir)
  /\ last' = [NoOp EXCEPT !.op = "generate_test_docs", !.who = "generator",
                          !.docs = TopFiles(dataDir', ".txt") + TopFiles(dataDir', ".pdf")
                                   + TopFiles(dataDir', ".docx")]
  /\ UNCHANGED <<store, storeDir, obj, embedSetting, vectors, prompt, session, race, extractors>>

(* ---------------- pipeline facade (rag_pipeline/core/core.py) --------- *)
\* RAGPipeline.__init__
\* a constructor that builds its manager before it resolves the file types
facade_init_storefirst(st, collection_name, model_config, file_types) ==
  IF get_model_config(model_config).err # None
    THEN [err |-> "ConfigurationError", store |-> st, obj |-> Unmade]
  ELSE LET n == ManagerName(collection_name, model_config) IN
       IF get_file_types(file_types).err # None
         THEN [err |-> "ConfigurationError",
               store |-> get_or_create_collection(st, n), obj |-> Unmade]
         ELSE [err |-> None, store |-> get_or_create_collection(st, n),
               obj |-> [made |-> TRUE, collection_name |-> collection_name,
                        mgr |-> n, index |-> None, cfg |-> model_config,
                        named |-> collection_name # None,
                        file_types |-> get_file_types(file_types).val]]

facade_init(st, collection_name, model_config, file_types) ==
  IF get_file_types(file_types).err # None
    THEN [err |-> "ConfigurationError", store |-> st, obj |-> Unmade]
  ELSE IF get_model_config(model_config).err # None
    THEN [err |-> "ConfigurationError", store |-> st, obj |-> Unmade]
  ELSE LET n == ManagerName(collection_name, model_config) IN
       [err |-> None, store |-> get_or_create_collection(st, n),
        obj |-> [made |-> TRUE, collection_name |-> collection_name,
                 mgr |-> n, index |-> None, cfg |-> model_config,
                 named |-> collection_name # None,
                 file_types |-> get_file_types(file_types).val]]

\* RAGPipeline.load_documents past the count check: load the documents and,
\* if there are any, build the index
load_and_build(st, o, dir, k) ==
  LET ld == engine_load_documents(dir, o.file_types, NoExts, DefaultExtractors, DefaultRecursive) IN
  IF ld.err # None
    THEN [err |-> ld.err, store |-> st, index |-> o.index, creates |-> 0,
          embedded |-> 0, path |-> "load"]
  ELSE IF ld.docs > 0
    THEN LET c == create_index(st, o.mgr, ld.docs, k) IN
         [err |-> c.err, store |-> c.store,
          index |-> IF c.err = None THEN c.index ELSE o.index,
          creates |-> 1, embedded |-> c.embedded, path |-> "build"]
  ELSE [err |-> None, store |-> st, index |-> o.index, creates |-> 0,
        embedded |-> 0, path |-> "empty"]

\* load_documents that reads and builds without asking for the count
load_documents_nocheck(st, o, dir, k) ==
  load_and_build(st, o, dir, k)

\* RAGPipeline.load_documents: the call of the manager's get_document_count
\* comes first; the manager has no such method, so the call raises before
\* anything is read or stored
load_documents(st, o, dir, k) ==
  IF manager_getattr("get_document_count") # None
    THEN [err |-> manager_getattr("get_document_count"), store |-> st,
          index |-> o.index, creates |-> 0, embedded |-> 0, path |-> "count"]
  ELSE IF get_document_count(st, o.mgr) > 0
    THEN [err |-> None, store |-> st, index |-> get_existing_index(st, o.mgr),
          creates |-> 0, embedded |-> 0, path |-> "existing"]
    ELSE load_and_build(st, o, dir, k)

\* the call now starting directly follows a load_documents call of the same
\* object that returned normally
Repeated(s) ==
  last.op = "load_documents" /\ last.who = s /\ last.outcome = "ok"

\* the call now starting directly follows a load_documents call of the same
\* object, whatever that call ended in
Succession(s) ==
  last.op = "load_documents" /\ last.who = s

\* a constructor that built its manager has set Settings.embed_model
EmbedAfter(err, model_config) ==
  IF err = None THEN EmbeddingOf(model_config) ELSE embedSetting

\* construction of a facade with a model configuration name drawn from MC
ConstructWith(f, MC) ==
  \E cn \in CtorNameInputs, mc \in MC, ft \in CtorFileTypeInputs :
    \E r \in {facade_init(store, cn, mc, ft)} :
    /\ ~obj[f].made
    /\ store' = r.store
    /\ obj' = [obj EXCEPT ![f] = r.obj]
    /\ embedSetting' = EmbedAfter(r.err, mc)
    /\ last' = [NoOp EXCEPT !.op = "construct", !.who = f,
                            !.arg = IF get_file_types(ft).err # None THEN ft ELSE mc,
                            !.outcome = IF r.err = None THEN "ok" ELSE r.err]
    /\ storeDir' = DirAfter(store')
    /\ UNCHANGED <<dataDir, vectors, prompt, session, race, extractors>>

Construct(f) == ConstructWith(f, CtorModelInputs)

LoadDocuments(f) ==
  /\ obj[f].made
  /\ \E k \in FailPoints(SimpleDirectoryReader(dataDir, obj[f].file_types, DefaultExtractors, DefaultRecursive)) :
       \E r \in {load_documents(store, obj[f], dataDir, k)} :
       /\ Bounded(r.store)
       /\ store' = r.store
       /\ obj' = [obj EXCEPT ![f].index = r.index]
       /\ vectors' = AddVectors(vectors, obj[f].mgr, r.embedded, embedSetting)
       /\ last' = [NoOp EXCEPT !.op = "load_documents", !.who = f,
                               !.outcome = IF r.err = None THEN "ok" ELSE r.err,
                               !.creates = r.creates, !.embedded = r.embedded,
                               !.path = r.path, !.rep = Repeated(f),
                               !.had = Succession(f),
                               !.before = Held(store, obj[f].mgr)]
       /\ storeDir' = DirAfter(store')
       /\ UNCHANGED <<dataDir, embedSetting, prompt, session, race, extractors>>

(* load_documents of the facade, statement by statement, for two instances
   that run it at the same time. The manager's get_document_count is the one
   the specification describes; db/chroma_manager.py does not define it. *)
\* doc_count = self.chroma_manager.get_document_count()
load_documents_count(st, o, r) ==
  [r EXCEPT !.pc = "counted", !.count = get_document_count(st, o.mgr)]

\* if doc_count > 0: the existing index is loaded and the call returns;
\* otherwise documents = self.data_loader.load_documents(file_types)
load_documents_read(st, o, dir, r) ==
  IF r.count > 0
    THEN [race |-> [r EXCEPT !.pc = "done"], index |-> get_existing_index(st, o.mgr)]
  ELSE LET ld == engine_load_documents(dir, o.file_types, NoExts, DefaultExtractors, DefaultRecursive) IN
       IF ld.err # None
         THEN [race |-> [r EXCEPT !.pc = "done", !.err = ld.err], index |-> o.index]
         ELSE [race |-> [r EXCEPT !.pc = "read", !.docs = ld.docs], index |-> o.index]

\* if documents: self.index = self.chroma_manager.create_index(documents)
load_documents_build(st, o, r, k) ==
  IF r.docs > 0
    THEN LET c == create_index(st, o.mgr, r.docs, k) IN
         [race |-> [r EXCEPT !.pc = "done", !.err = c.err, !.embedded = c.embedded],
          store |-> c.store, index |-> IF c.err = None THEN c.index ELSE o.index]
    ELSE [race |-> [r EXCEPT !.pc = "done"], store |-> st, index |-> o.index]

LoadCount(f) ==
  /\ obj[f].made /\ race[f].pc = "idle"
  /\ race' = [race EXCEPT ![f] = load_documents_count(store, obj[f], race[f])]
  /\ last' = [NoOp EXCEPT !.op = "load_documents_count", !.who = f,
                          !.before = race'[f].count]
  /\ UNCHANGED <<store, storeDir, obj, dataDir, embedSetting, vectors, prompt, session, extractors>>

LoadRead(f) ==
  /\ race[f].pc = "counted"
  /\ \E r \in {load_documents_read(store, obj[f], dataDir, race[f])} :
       /\ race' = [race EXCEPT ![f] = r.race]
       /\ obj' = [obj EXCEPT ![f].index = r.index]
       /\ last' = [NoOp EXCEPT !.op = "load_documents_read", !.who = f,
                               !.outcome = IF r.race.err = None THEN "ok" ELSE r.race.err,
                               !.docs = r.race.docs]
  /\ UNCHANGED <<store, storeDir, dataDir, embedSetting, vectors, prompt, session, extractors>>

LoadBuild(f) ==
  /\ race[f].pc = "read"
  /\ \E k \in FailPoints(race[f].docs) :
       \E r \in {load_documents_build(store, obj[f], race[f], k)} :
       /\ Bounded(r.store)
       /\ store' = r.store
       /\ race' = [race EXCEPT ![f] = r.race]
       /\ obj' = [obj EXCEPT ![f].index = r.index]
       /\ vectors' = AddVectors(vectors, obj[f].mgr, r.race.embedded, embedSetting)
       /\ last' = [NoOp EXCEPT !.op = "load_documents_build", !.who = f,
                               !.outcome = IF r.race.err = None THEN "ok" ELSE r.race.err,
                               !.embedded = r.race.embedded,
                               !.before = Held(store, obj[f].mgr)]
  /\ UNCHANGED <<storeDir, dataDir, embedSetting, prompt, session, extractors>>

\* query that validates the response mode before it looks at the index
query_modefirst(o, mode, ok) ==
  IF mode # None /\ mode \notin SeqRange(QUERY_CONFIG.supported_response_modes)
    THEN [err |-> "UnsupportedResponseModeError", usedMode |-> None,
          engineMade |-> FALSE, engineCalls |-> 0]
  ELSE IF o.index = None
    THEN [err |-> "NoIndexLoadedError", usedMode |-> None,
          engineMade |-> FALSE, engineCalls |-> 0]
  ELSE [err |-> IF ok THEN None ELSE "ProviderError",
        usedMode |-> IF mode = None THEN QUERY_CONFIG.default_response_mode ELSE mode,
        engineMade |-> TRUE, engineCalls |-> 1]

\* query that hands any supplied mode to the engine unchecked
query_nomodecheck(o, mode, ok) ==
  IF o.index = None
    THEN [err |-> "NoIndexLoadedError", usedMode |-> None,
          engineMade |-> FALSE, engineCalls |-> 0]
  ELSE [err |-> IF ok THEN None ELSE "ProviderError",
        usedMode |-> IF mode = None THEN QUERY_CONFIG.default_response_mode ELSE mode,
        engineMade |-> TRUE, engineCalls |-> 1]

\* query that checks the mode but always runs with the default mode
query_alwaysdefault(o, mode, ok) ==
  IF o.index = None
    THEN [err |-> "NoIndexLoadedError", usedMode |-> None,
          engineMade |-> FALSE, engineCalls |-> 0]
  ELSE IF mode # None /\ mode \notin SeqRange(QUERY_CONFIG.supported_response_modes)
    THEN [err |-> "UnsupportedResponseModeError", usedMode |-> None,
          engineMade |-> FALSE, engineCalls |-> 0]
  ELSE [err |-> IF ok THEN None ELSE "ProviderError",
        usedMode |-> QUERY_CONFIG.default_response_mode,
        engineMade |-> TRUE, engineCalls |-> 1]

\* query that tries the delegated call a second time when it fails
query_retry(o, mode, ok) ==
  IF o.index = None
    THEN [err |-> "NoIndexLoadedError", usedMode |-> None,
          engineMade |-> FALSE, engineCalls |-> 0]
  ELSE IF mode # None /\ mode \notin SeqRange(QUERY_CONFIG.supported_response_modes)
    THEN [err |-> "UnsupportedResponseModeError", usedMode |-> None,
          engineMade |-> FALSE, engineCalls |-> 0]
  ELSE [err |-> IF ok THEN None ELSE "ProviderError",
        usedMode |-> IF mode = None THEN QUERY_CONFIG.default_response_mode ELSE mode,
        engineMade |-> TRUE, engineCalls |-> IF ok THEN 1 ELSE 2]

\* query that answers a repeated call from the answer of the call before it
query_cached(o, mode, ok) ==
  IF o.index = None
    THEN [err |-> "NoIndexLoadedError", usedMode |-> None,
          engineMade |-> FALSE, engineCalls |-> 0]
  ELSE IF mode # None /\ mode \notin SeqRange(QUERY_CONFIG.supported_response_modes)
    THEN [err |-> "UnsupportedResponseModeError", usedMode |-> None,
          engineMade |-> FALSE, engineCalls |-> 0]
  ELSE IF last.op = "query" /\ last.outcome = "ok" /\ last.mode = mode
    THEN [err |-> None, usedMode |-> last.usedMode,
          engineMade |-> FALSE, engineCalls |-> 0]
  ELSE [err |-> IF ok THEN None ELSE "ProviderError",
        usedMode |-> IF mode = None THEN QUERY_CONFIG.default_response_mode ELSE mode,
        engineMade |-> TRUE, engineCalls |-> 1]

\* query that asks the delegated engine without looking at the index
query_noindexcheck(o, mode, ok) ==
  IF mode # None /\ mode \notin SeqRange(QUERY_CONFIG.supported_response_modes)
    THEN [err |-> "UnsupportedResponseModeError", usedMode |-> None,
          engineMade |-> FALSE, engineCalls |-> 0]
    ELSE [err |-> IF ok THEN None ELSE "ProviderError",
          usedMode |-> IF mode = None THEN QUERY_CONFIG.default_response_mode
                                      ELSE mode,
          engineMade |-> TRUE, engineCalls |-> 1]

\* RAGPipeline.query (the legacy pipeline and RAGQueryEngine carry the same
\* body); ok: the delegated retrieval and generation call returns
query(o, mode, ok) ==
  IF o.index = None
    THEN [err |-> "NoIndexLoadedError", usedMode |-> None,
          engineMade |-> FALSE, engineCalls |-> 0]
  ELSE IF mode = None
    THEN [err |-> IF ok THEN None ELSE "ProviderError",
          usedMode |-> QUERY_CONFIG.default_response_mode,
          engineMade |-> TRUE, engineCalls |-> 1]
  ELSE IF mode \notin SeqRange(QUERY_CONFIG.supported_response_modes)
    THEN [err |-> "UnsupportedResponseModeError", usedMode |-> None,
          engineMade |-> FALSE, engineCalls |-> 0]
  ELSE [err |-> IF ok THEN None ELSE "ProviderError", usedMode |-> mode,
        engineMade |-> TRUE, engineCalls |-> 1]

\* delete_index that clears the index and reports success whatever the
\* manager's delete does
delete_index_swallow(st, o) ==
  [err |-> None, store |-> st, index |-> None]

\* RAGPipeline.delete_index: the call of the manager's delete_collection
\* comes first; the manager has no such method, so the call raises and the
\* index is not cleared
delete_index(st, o) ==
  IF manager_getattr("delete_collection") # None
    THEN [err |-> manager_getattr("delete_collection"), store |-> st,
          index |-> o.index]
  ELSE LET d == delete_collection(st, o.mgr) IN
       IF d.err # None
         THEN [err |-> d.err, store |-> st, index |-> o.index]
         ELSE [err |-> None, store |-> d.store, index |-> None]

\* the call now starting repeats the question and mode of the query the same
\* object answered just before
RepeatedQuery(s, q, mode) ==
  /\ last.op = "query" /\ last.who = s /\ last.arg = q /\ last.mode = mode
  /\ last.outcome = "ok"

Query(s) ==
  \E q \in Questions, mode \in ModeInputs, ok \in BOOLEAN :
    \E r \in {query(obj[s], mode, ok)} :
    /\ obj[s].made
    /\ last' = [NoOp EXCEPT !.op = "query", !.who = s, !.arg = q, !.mode = mode,
                            !.outcome = IF r.err = None THEN "ok" ELSE r.err,
                            !.usedMode = r.usedMode,
                            !.engineMade = r.engineMade,
                            !.engineCalls = r.engineCalls,
                            !.rep = RepeatedQuery(s, q, mode)]
    /\ UNCHANGED <<store, storeDir, obj, dataDir, embedSetting, vectors, prompt, session, race, extractors>>

DeleteIndex(f) ==
  LET r == delete_index(store, obj[f]) IN
  /\ obj[f].made
  /\ store' = r.store
  /\ obj' = [obj EXCEPT ![f].index = r.index]
  /\ last' = [NoOp EXCEPT !.op = "delete_index", !.who = f,
                          !.arg = obj[f].mgr,
                          !.outcome = IF r.err = None THEN "ok" ELSE r.err,
                          !.before = Held(store, obj[f].mgr)]
  /\ vectors' = Prune(vectors, r.store)
  /\ storeDir' = DirAfter(store')
  /\ UNCHANGED <<dataDir, embedSetting, prompt, session, race, extractors>>

(* ---------------- legacy pipeline (rag_pipeline/core.py) -------------- *)
\* RAGPipeline.__init__ of the legacy pipeline
legacy_init(st, collection_name, model_config, file_types) ==
  IF get_model_config(model_config).err # None
    THEN [err |-> "ConfigurationError", store |-> st, obj |-> Unmade]
  ELSE IF get_file_types(file_types).err # None
    THEN [err |-> "ConfigurationError", store |-> st, obj |-> Unmade]
  ELSE LET n == ManagerName(collection_name, model_config) IN
       [err |-> None, store |-> get_or_create_collection(st, n),
        obj |-> [made |-> TRUE, collection_name |-> n, mgr |-> n,
                 index |-> None, cfg |-> model_config,
                 named |-> collection_name # None,
                 file_types |-> get_file_types(file_types).val]]

\* a legacy load_documents that drops the index it holds when it cannot read
\* or build
legacy_load_documents_reset(st, o, dir, k) ==
  LET docs == SimpleDirectoryReader(dir, o.file_types, DefaultExtractors, TRUE) IN
  IF docs = Missing
    THEN [err |-> "DirectoryNotFoundError", store |-> st, index |-> None,
          creates |-> 0, embedded |-> 0, path |-> "load"]
  ELSE IF docs = NoFiles
    THEN [err |-> "NoFilesFoundError", store |-> st, index |-> None,
          creates |-> 0, embedded |-> 0, path |-> "load"]
  ELSE LET c == create_index(st, o.mgr, docs, k) IN
       [err |-> c.err, store |-> c.store,
        index |-> IF c.err = None THEN c.index ELSE None,
        creates |-> 1, embedded |-> c.embedded, path |-> "build"]

\* RAGPipeline.load_documents of the legacy pipeline: reads the directory and
\* indexes what it finds, whatever the collection already holds
legacy_load_documents(st, o, dir, k) ==
  LET docs == SimpleDirectoryReader(dir, o.file_types, DefaultExtractors, TRUE) IN
  IF docs = Missing
    THEN [err |-> "DirectoryNotFoundError", store |-> st, index |-> o.index,
          creates |-> 0, embedded |-> 0, path |-> "load"]
  ELSE IF docs = NoFiles
    THEN [err |-> "NoFilesFoundError", store |-> st, index |-> o.index,
          creates |-> 0, embedded |-> 0, path |-> "load"]
  ELSE LET c == create_index(st, o.mgr, docs, k) IN
       [err |-> c.err, store |-> c.store,
        index |-> IF c.err = None THEN c.index ELSE o.index,
        creates |-> 1, embedded |-> c.embedded, path |-> "build"]

\* construction of a legacy pipeline with a model configuration name drawn from MC
LegacyConstructWith(l, MC) ==
  \E cn \in CtorNameInputs, mc \in MC, ft \in CtorFileTypeInputs :
    \E r \in {legacy_init(store, cn, mc, ft)} :
    /\ ~obj[l].made
    /\ store' = r.store
    /\ obj' = [obj EXCEPT ![l] = r.obj]
    /\ embedSetting' = EmbedAfter(r.err, mc)
    /\ last' = [NoOp EXCEPT !.op = "construct", !.who = l,
                            !.arg = IF get_model_config(mc).err # None THEN mc ELSE ft,
                            !.outcome = IF r.err = None THEN "ok" ELSE r.err]
    /\ storeDir' = DirAfter(store')
    /\ UNCHANGED <<dataDir, vectors, prompt, session, race, extractors>>

LegacyConstruct(l) == LegacyConstructWith(l, CtorModelInputs)

LegacyLoadDocuments(l) ==
  /\ obj[l].made
  /\ \E k \in FailPoints(SimpleDirectoryReader(dataDir, obj[l].file_types, DefaultExtractors, TRUE)) :
       \E r \in {legacy_load_documents(store, obj[l], dataDir, k)} :
       /\ Bounded(r.store)
       /\ store' = r.store
       /\ obj' = [obj EXCEPT ![l].index = r.index]
       /\ vectors' = AddVectors(vectors, obj[l].mgr, r.embedded, embedSetting)
       /\ last' = [NoOp EXCEPT !.op = "load_documents", !.who = l,
                               !.outcome = IF r.err = None THEN "ok" ELSE r.err,
                               !.creates = r.creates, !.embedded = r.embedded,
                               !.path = r.path, !.rep = Repeated(l)]
       /\ storeDir' = DirAfter(store')
       /\ UNCHANGED <<dataDir, embedSetting, prompt, session, race, extractors>>

(* ------------------ RAGQueryEngine (query_engine.py) ------------------ *)
\* RAGQueryEngine.__init__
engine_init(st, collection_name, model_config) ==
  IF get_model_config(model_config).err # None
    THEN [err |-> "ConfigurationError", store |-> st, obj |-> Unmade]
  ELSE LET n == ManagerName(collection_name, model_config)
           st2 == get_or_create_collection(st, n) IN
       [err |-> None, store |-> st2,
        obj |-> [made |-> TRUE, collection_name |-> n, mgr |-> n,
                 index |-> get_existing_index(st2, n), cfg |-> model_config,
                 named |-> collection_name # None, file_types |-> NoExts]]

\* construction of a query engine with a model configuration name drawn from MC
EngineConstructWith(e, MC) ==
  \E cn \in CtorNameInputs, mc \in MC :
    \E r \in {engine_init(store, cn, mc)} :
    /\ ~obj[e].made
    /\ store' = r.store
    /\ obj' = [obj EXCEPT ![e] = r.obj]
    /\ embedSetting' = EmbedAfter(r.err, mc)
    /\ last' = [NoOp EXCEPT !.op = "construct", !.who = e, !.arg = mc,
                            !.outcome = IF r.err = None THEN "ok" ELSE r.err]
    /\ storeDir' = DirAfter(store')
    /\ UNCHANGED <<dataDir, vectors, prompt, session, race, extractors>>

EngineConstruct(e) == EngineConstructWith(e, CtorModelInputs)

(* ------------- RAGHandler (web/backend/handlers/rag_handler.py) ------- *)
\* collection names a handler is created for
HandlerNameInputs == {"test_documents", "rag_collection_default"}

\* where the construction of the engine raises: nowhere, when the store is
\* opened (before the collection exists), or when the language model is set
\* up (after the manager was built)
InitFailures == {"none", "store", "llm"}

\* RAGHandler.__init__: the name is kept, no engine yet
handler_init(collection_name) ==
  [Unmade EXCEPT !.collection_name = collection_name, !.named = TRUE]

\* the query_engine property with no memory of the engine it built
handler_query_engine_rebuild(st, h, fail) ==
  IF fail = "store"
    THEN [err |-> "InitError", store |-> st, obj |-> h, tried |-> TRUE, built |-> 0]
  ELSE LET r == engine_init(st, h.collection_name, "default") IN
       IF fail = "llm"
         THEN [err |-> "InitError", store |-> r.store, obj |-> h,
               tried |-> TRUE, built |-> 0]
         ELSE [err |-> r.err, store |-> r.store, obj |-> r.obj,
               tried |-> TRUE, built |-> 1]

\* the query_engine property: builds RAGQueryEngine(collection_name,
\* "default") when _query_engine is None, re-raises what the construction
\* raises (leaving _query_engine None), and returns _query_engine
handler_query_engine(st, h, fail) ==
  IF h.made
    THEN [err |-> None, store |-> st, obj |-> h, tried |-> FALSE, built |-> 0]
  ELSE IF fail = "store"
    THEN [err |-> "InitError", store |-> st, obj |-> h, tried |-> TRUE, built |-> 0]
  ELSE LET r == engine_init(st, h.collection_name, "default") IN
       IF fail = "llm"
         THEN [err |-> "InitError", store |-> r.store, obj |-> h,
               tried |-> TRUE, built |-> 0]
         ELSE [err |-> r.err, store |-> r.store, obj |-> r.obj,
               tried |-> TRUE, built |-> 1]

\* handle_query without its except clause
handle_query_reraise(st, h, fail, ok) ==
  LET e == handler_query_engine(st, h, fail)
      q == query(e.obj, None, ok) IN
  IF e.err # None
    THEN [success |-> FALSE, error |-> e.err, raised |-> TRUE, store |-> e.store,
          obj |-> e.obj, tried |-> e.tried, built |-> e.built]
    ELSE [success |-> q.err = None, error |-> q.err, raised |-> q.err # None,
          store |-> e.store, obj |-> e.obj, tried |-> e.tried, built |-> e.built]

\* RAGHandler.handle_query: asks the engine of the query_engine property and
\* turns every exception into {success: False, error}
handle_query(st, h, fail, ok) ==
  LET e == handler_query_engine(st, h, fail)
      q == query(e.obj, None, ok) IN
  IF e.err # None
    THEN [success |-> FALSE, error |-> e.err, raised |-> FALSE, store |-> e.store,
          obj |-> e.obj, tried |-> e.tried, built |-> e.built]
    ELSE [success |-> q.err = None, error |-> q.err, raised |-> FALSE,
          store |-> e.store, obj |-> e.obj, tried |-> e.tried, built |-> e.built]

HandlerConstruct(h) ==
  \E cn \in HandlerNameInputs :
    /\ obj[h] = Unmade
    /\ obj' = [obj EXCEPT ![h] = handler_init(cn)]
    /\ last' = [NoOp EXCEPT !.op = "handler_construct", !.who = h, !.arg = cn]
    /\ UNCHANGED <<store, storeDir, dataDir, embedSetting, vectors, prompt, session, race, extractors>>

HandleQuery(h) ==
  \E q \in Questions, fail \in InitFailures, ok \in BOOLEAN :
    /\ obj[h] # Unmade
    /\ obj[h].made => fail = "none"
    /\ \E r \in {handle_query(store, obj[h], fail, ok)} :
         /\ store' = r.store
         /\ obj' = [obj EXCEPT ![h] = r.obj]
         /\ embedSetting' = IF r.tried /\ fail # "store"
                              THEN EmbeddingOf("default") ELSE embedSetting
         /\ last' = [NoOp EXCEPT !.op = "handle_query", !.who = h, !.arg = q,
                                 !.success = r.success, !.caught = r.error,
                                 !.raised = r.raised, !.fail = fail, !.ok = ok,
                                 !.had = obj[h].made, !.tried = r.tried,
                                 !.built = r.built]
         /\ storeDir' = DirAfter(store')
         /\ UNCHANGED <<dataDir, vectors, prompt, session, race, extractors>>

(* -------------- index-creation script (example_create_index.py) ------- *)
\* main: loads the documents and calls the manager's create_index directly
script_main(st, collection_name, dir, k) ==
  LET ld == legacy_loader_load_documents(dir, get_file_types("default").val, NoExts) IN
  IF ~dir.exists
    THEN [err |-> None, store |-> st, creates |-> 0, embedded |-> 0,
          path |-> "nodir", name |-> None]
  ELSE IF ld.err # None
    THEN [err |-> ld.err, store |-> st, creates |-> 0,
          embedded |-> 0, path |-> "load", name |-> None]
  ELSE LET n == ManagerName(collection_name, "default")
           st2 == get_or_create_collection(st, n)
           c == create_index(st2, n, ld.docs, k) IN
       [err |-> c.err, store |-> c.store, creates |-> 1,
        embedded |-> c.embedded, path |-> "build", name |-> n]

ScriptCreateIndex ==
  \E cn \in CtorNameInputs, k \in FailPoints(SimpleDirectoryReader(dataDir, FILE_TYPES["default"], DefaultExtractors, TRUE)) :
    \E r \in {script_main(store, cn, dataDir, k)} :
    /\ Bounded(r.store)
    /\ store' = r.store
    /\ last' = [NoOp EXCEPT !.op = "create_index_script", !.who = "script",
                            !.arg = r.name,
                            !.outcome = IF r.err = None THEN "ok" ELSE r.err,
                            !.creates = r.creates, !.embedded = r.embedded,
                            !.path = r.path]
    /\ embedSetting' = IF r.name # None THEN EmbeddingOf("default") ELSE embedSetting
    /\ vectors' = AddVectors(vectors, r.name, r.embedded, EmbeddingOf("default"))
    /\ storeDir' = DirAfter(store')
    /\ UNCHANGED <<obj, dataDir, prompt, session, race, extractors>>

(* ------------- inspection tool (tools/inspect_chroma.py) -------------- *)
\* what the user types at a confirmation prompt
Answers == {"y", "Y", "n"}

\* str.lower on an answer
Lower(a) == IF a = "Y" THEN "y" ELSE a

\* delete_collection up to the prompt: the name is looked up among the
\* collections of the store and the count of the collection is read
delete_lookup(st, n) ==
  IF st[n] = Absent THEN [found |-> FALSE, count |-> 0]
                    ELSE [found |-> TRUE, count |-> st[n]]

\* a confirmation that takes every answer for a yes
delete_confirmed_any(force, answer) ==
  TRUE

\* delete_collection, "Confirm deletion if not forced": the answer is
\* lower-cased and compared with "y"
delete_confirmed(force, answer) ==
  force \/ Lower(answer) = "y"

\* delete_collection from "Delete the collection" on: the store's delete
\* raises for a collection that is not there (any more) or when the store
\* fails (raises); the except clause makes False of it
delete_apply(st, n, raises) ==
  IF raises \/ st[n] = Absent THEN [ret |-> FALSE, store |-> st]
  ELSE [ret |-> TRUE, store |-> [st EXCEPT ![n] = Absent]]

\* delete_collection(chroma_client, collection_name, force) run in one piece,
\* as it is with force=True; answer: what the user types at the prompt
inspect_delete_collection(st, n, force, answer, raises) ==
  IF ~delete_lookup(st, n).found THEN [ret |-> FALSE, store |-> st]
  ELSE IF ~delete_confirmed(force, answer) THEN [ret |-> FALSE, store |-> st]
  ELSE delete_apply(st, n, raises)

\* delete_collection(chroma_client, n, force=True) called with a client of
\* the store (the client has opened the store: its directory exists)
InspectDelete ==
  \E n \in Names, raises \in BOOLEAN :
    LET r == inspect_delete_collection(store, n, TRUE, "n", raises) IN
    /\ store' = r.store
    /\ last' = [NoOp EXCEPT !.op = "inspect_delete", !.who = "tool", !.arg = n,
                            !.outcome = IF r.ret THEN "True" ELSE "False",
                            !.force = TRUE, !.raised = raises,
                            !.before = Held(store, n)]
    /\ vectors' = Prune(vectors, r.store)
    /\ storeDir' = TRUE
    /\ UNCHANGED <<obj, dataDir, embedSetting, prompt, session, race, extractors>>

\* the commands of the tool's main that the model runs
InspectCommands == {"delete_all", "delete", "list"}

\* the loop of --delete-all: delete_collection with force=True for every
\* collection that was listed
delete_listed(st, listed, raises) ==
  [m \in DOMAIN st |->
     IF m \in listed THEN inspect_delete_collection(st, m, TRUE, "n", raises).store[m]
                     ELSE st[m]]

\* inspect_chroma.main for the runs that do not wait for an answer:
\* --delete-all --force, --delete --collection NAME --force, and the listing,
\* which changes nothing. Without the store's directory main prints the
\* error and leaves with sys.exit(1) before it opens the store
inspect_main(dirExists, st, cmd, n, raises) ==
  IF ~dirExists THEN [out |-> "exit1", store |-> st]
  ELSE IF cmd = "delete_all" THEN
    IF Present(st) = {} THEN [out |-> "none_found", store |-> st]
    ELSE [out |-> "deleted_all", store |-> delete_listed(st, Present(st), raises)]
  ELSE IF cmd = "delete" THEN
    LET r == inspect_delete_collection(st, n, TRUE, "n", raises) IN
    [out |-> IF r.ret THEN "True" ELSE "False", store |-> r.store]
  ELSE [out |-> "listed", store |-> st]

InspectMain ==
  \E cmd \in InspectCommands, n \in Names, raises \in BOOLEAN :
    \E r \in {inspect_main(storeDir, store, cmd, n, raises)} :
      /\ cmd = "list" => ~raises
      /\ store' = r.store
      /\ last' = [NoOp EXCEPT !.op = "inspect_main", !.who = "tool", !.arg = n,
                              !.path = cmd, !.outcome = r.out,
                              !.before = Held(store, n), !.force = cmd # "list",
                              !.raised = raises]
      /\ vectors' = Prune(vectors, r.store)
      /\ storeDir' = DirAfter(store')
      /\ UNCHANGED <<obj, dataDir, embedSetting, prompt, session, race, extractors>>

\* main without --force, up to the prompt. Without the store's directory
\* main leaves with sys.exit(1). --delete --collection n: an unknown name
\* ends the run with False, a known one is announced with its count and the
\* run waits in input(). --delete-all: without collections the run ends,
\* otherwise they are announced and the run waits
inspect_ask(dirExists, st, cmd, n) ==
  IF ~dirExists THEN [out |-> "exit1", prompt |-> NoPrompt]
  ELSE IF cmd = "delete" THEN
    IF delete_lookup(st, n).found
      THEN [out |-> "asked",
            prompt |-> [pc |-> "one", name |-> n,
                        count |-> delete_lookup(st, n).count, listed |-> {n}]]
      ELSE [out |-> "False", prompt |-> NoPrompt]
  ELSE IF Present(st) = {} THEN [out |-> "none_found", prompt |-> NoPrompt]
  ELSE [out |-> "asked",
        prompt |-> [pc |-> "all", name |-> None,
                    count |-> Cardinality(Present(st)), listed |-> Present(st)]]

InspectAsk ==
  \E cmd \in InspectCommands \ {"list"}, n \in Names :
    /\ prompt.pc = "idle"
    /\ cmd = "delete_all" => n = CHOOSE m \in Names : TRUE
    /\ \E r \in {inspect_ask(storeDir, store, cmd, n)} :
         /\ prompt' = r.prompt
         /\ last' = [NoOp EXCEPT !.op = "inspect_ask", !.who = "tool",
                                 !.arg = IF cmd = "delete" THEN n ELSE None,
                                 !.path = cmd, !.outcome = r.out,
                                 !.before = r.prompt.count]
    /\ UNCHANGED <<store, storeDir, obj, dataDir, embedSetting, vectors, session, race, extractors>>

\* main from the answer on, on the store as it is by then. Any answer but a
\* yes cancels; a yes deletes the announced collection (False when the delete
\* raises) or, for --delete-all, runs the loop over the collections listed
\* before the prompt
inspect_answer(st, pr, answer, raises) ==
  IF ~delete_confirmed(FALSE, answer)
    THEN [out |-> IF pr.pc = "one" THEN "False" ELSE "cancelled", store |-> st]
  ELSE IF pr.pc = "one"
    THEN [out |-> IF delete_apply(st, pr.name, raises).ret THEN "True" ELSE "False",
          store |-> delete_apply(st, pr.name, raises).store]
  ELSE [out |-> "deleted_all", store |-> delete_listed(st, pr.listed, raises)]

InspectAnswer ==
  \E answer \in Answers, raises \in BOOLEAN :
    /\ prompt.pc # "idle"
    /\ \E r \in {inspect_answer(store, prompt, answer, raises)} :
         /\ store' = r.store
         /\ prompt' = NoPrompt
         /\ last' = [NoOp EXCEPT !.op = "inspect_answer", !.who = "tool",
                                 !.arg = prompt.name,
                                 !.path = IF prompt.pc = "one" THEN "delete"
                                                               ELSE "delete_all",
                                 !.outcome = r.out, !.before = prompt.count,
                                 !.docs = IF prompt.pc = "one"
                                            THEN Held(store, prompt.name)
                                            ELSE Cardinality(Present(store)),
                                 !.answer = answer, !.raised = raises]
         /\ vectors' = Prune(vectors, r.store)
    /\ storeDir' = DirAfter(store')
    /\ UNCHANGED <<obj, dataDir, embedSetting, session, race, extractors>>

(* ---------------- query CLI (examples/example_query.py) --------------- *)
\* the except branch of main, with the traceback printed whatever --debug says
cli_handle_alwaystrace(err, st, answered, debug, listRaises) ==
  [ret |-> "ok", caught |-> err, shown |-> TRUE, trace |-> TRUE,
   listed |-> TRUE, listErr |-> listRaises, answered |-> answered, store |-> st,
   session |-> NoSession]

\* the except branch of main: prints the error, the traceback under --debug,
\* then the collections (list_available_collections catches what the store
\* raises: listRaises) and the tip
cli_handle(err, st, answered, debug, listRaises) ==
  [ret |-> "ok", caught |-> err, shown |-> TRUE, trace |-> debug,
   listed |-> TRUE, listErr |-> listRaises, answered |-> answered, store |-> st,
   session |-> NoSession]

\* main returns without an error having been raised
cli_return(st, answered, listed, listRaises) ==
  [ret |-> "ok", caught |-> None, shown |-> FALSE, trace |-> FALSE,
   listed |-> listed, listErr |-> listRaises, answered |-> answered, store |-> st,
   session |-> NoSession]

\* main with --list-collections, or with --question: the engine is built and
\* the one question put to it without a wait; ok: the delegated call returns
query_cli_main(st, listOnly, cn, mc, mode, ok, debug, listRaises) ==
  IF listOnly THEN cli_return(st, 0, TRUE, listRaises)
  ELSE LET e == engine_init(st, cn, mc) IN
       IF e.err # None
         THEN cli_handle(e.err, e.store, 0, debug, listRaises)
       ELSE IF query(e.obj, mode, ok).err # None
         THEN cli_handle(query(e.obj, mode, ok).err, e.store, 0, debug, listRaises)
       ELSE cli_return(e.store, 1, FALSE, FALSE)

\* one run of the query CLI that does not wait for input
QueryCli ==
  \E listOnly \in BOOLEAN, cn \in CtorNameInputs, mc \in CtorModelInputs,
     mode \in ModeInputs, ok \in BOOLEAN, debug \in BOOLEAN,
     listRaises \in BOOLEAN :
    /\ listOnly => (cn = None /\ mc = "default" /\ mode = None /\ ok /\ ~debug)
    /\ \E r \in {query_cli_main(store, listOnly, cn, mc, mode, ok, debug, listRaises)} :
         /\ r.caught = None => (listOnly \/ ~listRaises)
         /\ store' = r.store
         /\ storeDir' \in DirAfterListing(r.store, r.listed, r.listErr)
         /\ embedSetting' = IF listOnly THEN embedSetting
                            ELSE EmbedAfter(get_model_config(mc).err, mc)
         /\ last' = [NoOp EXCEPT !.op = "query_cli", !.who = "cli", !.arg = mc,
                                 !.outcome = r.ret,
                                 !.caught = r.caught, !.shown = r.shown,
                                 !.trace = r.trace, !.listed = r.listed,
                                 !.listErr = r.listErr, !.debug = debug,
                                 !.listOnly = listOnly,
                                 !.asks = IF listOnly THEN 0 ELSE 1]
    /\ UNCHANGED <<obj, dataDir, vectors, prompt, session, race, extractors>>

\* main without --question, up to the first prompt: the engine is built; an
\* error of the construction goes to the except branch and main returns,
\* otherwise the run waits in input()
cli_start(st, cn, mc, mode, debug, listRaises) ==
  LET e == engine_init(st, cn, mc) IN
  IF e.err # None
    THEN cli_handle(e.err, e.store, 0, debug, listRaises)
    ELSE [cli_return(e.store, 0, FALSE, FALSE) EXCEPT
            !.ret = "waiting",
            !.session = [pc |-> "prompt", engine |-> e.obj, mode |-> mode,
                         debug |-> debug, answered |-> 0]]

CliStart ==
  \E cn \in CtorNameInputs, mc \in CtorModelInputs, mode \in ModeInputs,
     debug \in BOOLEAN, listRaises \in BOOLEAN :
    /\ session.pc = "idle"
    /\ \E r \in {cli_start(store, cn, mc, mode, debug, listRaises)} :
         /\ r.caught = None => ~listRaises
         /\ store' = r.store
         /\ storeDir' \in DirAfterListing(r.store, r.listed, r.listErr)
         /\ session' = r.session
         /\ embedSetting' = EmbedAfter(get_model_config(mc).err, mc)
         /\ last' = [NoOp EXCEPT !.op = IF r.ret = "waiting" THEN "query_cli_wait"
                                                             ELSE "query_cli",
                                 !.who = "cli", !.arg = mc, !.outcome = r.ret,
                                 !.caught = r.caught, !.shown = r.shown,
                                 !.trace = r.trace, !.listed = r.listed,
                                 !.listErr = r.listErr, !.debug = debug]
    /\ UNCHANGED <<obj, dataDir, vectors, prompt, race, extractors>>

\* what the user types at the question prompt: a question, or one of the
\* words that end the loop
Typed == {"question", "exit"}

\* main from an input on: "exit" ends the loop and main returns; a question
\* is put to the engine built before the first prompt; an error of the query
\* goes to the except branch and main returns, an answer brings the next
\* prompt
cli_input(st, se, typed, ok, listRaises) ==
  IF typed = "exit" THEN cli_return(st, se.answered, FALSE, FALSE)
  ELSE IF query(se.engine, se.mode, ok).err # None
    THEN cli_handle(query(se.engine, se.mode, ok).err, st, se.answered,
                    se.debug, listRaises)
  ELSE [cli_return(st, se.answered + 1, FALSE, FALSE) EXCEPT
          !.ret = "waiting",
          !.session = [se EXCEPT !.answered = @ + 1]]

CliInput ==
  \E typed \in Typed, ok \in BOOLEAN, listRaises \in BOOLEAN :
    /\ session.pc = "prompt"
    /\ typed = "exit" => ok
    /\ typed = "question" => session.answered < MaxAsk
    /\ \E r \in {cli_input(store, session, typed, ok, listRaises)} :
         /\ r.caught = None => ~listRaises
         /\ session' = r.session
         /\ last' = [NoOp EXCEPT !.op = IF r.ret = "waiting" THEN "query_cli_wait"
                                                             ELSE "query_cli",
                                 !.who = "cli", !.arg = session.engine.cfg,
                                 !.coll = session.engine.mgr,
                                 !.outcome = r.ret,
                                 !.caught = r.caught, !.shown = r.shown,
                                 !.trace = r.trace, !.listed = r.listed,
                                 !.listErr = r.listErr, !.debug = session.debug,
                                 !.asks = r.answered, !.had = TRUE]
    /\ UNCHANGED <<store, storeDir, obj, dataDir, embedSetting, vectors, prompt, race, extractors>>

(* ------------------ run_pipeline command (run_pipeline.py) ------------ *)
\* flag -> the configuration main selects
RunPipelineFlags == {"default", "legacy", "balanced"}

\* main: builds the three pipelines, then selects one by the flag, loads the
\* documents with it and asks the example questions
run_pipeline_main(st, flag, dir, k, ok) ==
  LET p1 == legacy_init(st, None, "default", "default")
      p2 == legacy_init(p1.store, None, "legacy", "documents")
      p3 == legacy_init(p2.store, None, "balanced", "text_only") IN
  IF p1.err # None
    THEN [err |-> p1.err, store |-> p1.store, reached |-> "construct",
          embedded |-> 0, name |-> None, built |-> <<>>]
  ELSE IF p2.err # None
    THEN [err |-> p2.err, store |-> p2.store, reached |-> "construct",
          embedded |-> 0, name |-> None, built |-> <<"default">>]
  ELSE IF p3.err # None
    THEN [err |-> p3.err, store |-> p3.store, reached |-> "construct",
          embedded |-> 0, name |-> None, built |-> <<"default", "legacy">>]
  ELSE LET rag == IF flag = "default" THEN p1.obj
                  ELSE IF flag = "legacy" THEN p2.obj ELSE p3.obj
           ld == legacy_load_documents(p3.store, rag, dir, k) IN
       IF ld.err # None
         THEN [err |-> ld.err, store |-> ld.store, reached |-> "load_documents",
               embedded |-> ld.embedded, name |-> rag.mgr,
               built |-> <<"default", "legacy", "balanced">>]
         ELSE [err |-> query([rag EXCEPT !.index = ld.index], None, ok).err,
               store |-> ld.store, reached |-> "query",
               embedded |-> ld.embedded, name |-> rag.mgr,
               built |-> <<"default", "legacy", "balanced">>]

RunPipeline ==
  \E flag \in RunPipelineFlags, k \in 0..MaxDocs, ok \in BOOLEAN :
    \E r \in {run_pipeline_main(store, flag, dataDir, k, ok)} :
    /\ Bounded(r.store)
    /\ store' = r.store
    /\ embedSetting' = IF r.built = <<>> THEN embedSetting
                       ELSE EmbeddingOf(r.built[Len(r.built)])
    /\ vectors' = AddVectors(vectors, r.name, r.embedded, embedSetting')
    /\ last' = [NoOp EXCEPT !.op = "run_pipeline", !.who = "run_pipeline",
                            !.arg = flag, !.path = r.reached,
                            !.outcome = IF r.err = None THEN "ok" ELSE r.err,
                            !.embedded = r.embedded]
    /\ storeDir' = DirAfter(store')
    /\ UNCHANGED <<obj, dataDir, prompt, session, race, extractors>>

(* ------------- examples/run_pipeline.py (facade command) -------------- *)
\* the model flags the parser accepts, by the attribute argparse gives them
ExampleFlags == {"default", "azure_default", "azure_fast"}

\* main, "Determine model configuration": the chain tests args.default, then
\* args.fast and args.legacy, attributes the parser never defines; reading
\* args.fast raises AttributeError unless --default was given
example_select_config(flag) ==
  IF flag = "default" THEN [err |-> None, val |-> "default"]
  ELSE [err |-> "AttributeError", val |-> None]

\* main: selects the configuration, builds the facade, loads the documents
\* and asks the example questions
example_run_main(st, flag, cn, ft, dir, k, ok) ==
  LET sel == example_select_config(flag) IN
  IF sel.err # None
    THEN [err |-> sel.err, store |-> st, reached |-> "select", cfg |-> None,
          embedded |-> 0, name |-> None]
  ELSE LET p == facade_init(st, cn, sel.val, ft) IN
       IF p.err # None
         THEN [err |-> p.err, store |-> p.store, reached |-> "construct",
               cfg |-> sel.val, embedded |-> 0, name |-> None]
       ELSE LET ld == load_documents(p.store, p.obj, dir, k) IN
            IF ld.err # None
              THEN [err |-> ld.err, store |-> ld.store,
                    reached |-> "load_documents", cfg |-> sel.val,
                    embedded |-> ld.embedded, name |-> p.obj.mgr]
              ELSE [err |-> query([p.obj EXCEPT !.index = ld.index], None, ok).err,
                    store |-> ld.store, reached |-> "query", cfg |-> sel.val,
                    embedded |-> ld.embedded, name |-> p.obj.mgr]

ExampleRunPipeline ==
  \E flag \in ExampleFlags, cn \in CtorNameInputs \ {None},
     ft \in DOMAIN FILE_TYPES, k \in 0..MaxDocs, ok \in BOOLEAN :
    \E r \in {example_run_main(store, flag, cn, ft, dataDir, k, ok)} :
      /\ Bounded(r.store)
      /\ store' = r.store
      /\ embedSetting' = IF r.reached \in {"select", "construct"}
                           THEN embedSetting ELSE EmbeddingOf(r.cfg)
      /\ vectors' = AddVectors(vectors, r.name, r.embedded, embedSetting')
      /\ last' = [NoOp EXCEPT !.op = "example_run_pipeline", !.who = "example",
                              !.arg = flag, !.res = r.cfg, !.path = r.reached,
                              !.outcome = IF r.err = None THEN "ok" ELSE r.err,
                              !.embedded = r.embedded]
      /\ storeDir' = DirAfter(store')
      /\ UNCHANGED <<obj, dataDir, prompt, session, race, extractors>>

(* ------- examples/example_create_index.py (facade index creation) ----- *)
\* main: returns when the data directory is missing; otherwise builds the
\* facade for the chosen configuration (the parser admits registered names
\* only) and calls its load_documents, then prints the collection name
example_create_index_main(st, cn, mc, dir) ==
  IF ~dir.exists
    THEN [err |-> None, store |-> st, reached |-> "nodir", made |-> FALSE]
  ELSE LET p == facade_init(st, cn, mc, "default") IN
       IF p.err # None
         THEN [err |-> p.err, store |-> p.store, reached |-> "construct",
               made |-> FALSE]
       ELSE LET ld == load_documents(p.store, p.obj, dir, MaxDocs) IN
            [err |-> ld.err, store |-> ld.store, made |-> TRUE,
             reached |-> IF ld.err # None THEN "load_documents" ELSE "printed"]

ExampleCreateIndex ==
  \E cn \in CtorNameInputs, mc \in MixModelInputs :
    \E r \in {example_create_index_main(store, cn, mc, dataDir)} :
      /\ Bounded(r.store)
      /\ store' = r.store
      /\ embedSetting' = IF r.made THEN EmbeddingOf(mc) ELSE embedSetting
      /\ last' = [NoOp EXCEPT !.op = "example_create_index", !.who = "example",
                              !.arg = mc, !.cname = cn, !.path = r.reached,
                              !.outcome = IF r.err = None THEN "ok" ELSE r.err]
      /\ storeDir' = DirAfter(store')
      /\ UNCHANGED <<obj, dataDir, vectors, prompt, session, race, extractors>>

(* --------------------- a manager built on its own --------------------- *)
\* ChromaDBManager(collection_name, model_config), as a script builds it
ManagerInit ==
  \E cn \in CtorNameInputs, mc \in ModelNameInputs :
    LET r == manager_init(store, cn, mc) IN
    /\ store' = r.store
    /\ embedSetting' = IF r.err = None THEN EmbeddingOf(mc) ELSE embedSetting
    /\ last' = [NoOp EXCEPT !.op = "manager_init", !.who = "manager",
                            !.arg = mc, !.cname = cn, !.coll = r.name,
                            !.outcome = IF r.err = None THEN "ok" ELSE r.err]
    /\ storeDir' = DirAfter(store')
    /\ UNCHANGED <<obj, dataDir, vectors, prompt, session, race, extractors>>

\* get_existing_index called on the manager of a facade or of a query engine
GetExistingIndex(s) ==
  /\ obj[s].made
  /\ last' = [NoOp EXCEPT !.op = "get_existing_index", !.who = s,
                          !.coll = obj[s].mgr, !.outcome = "ok",
                          !.res = get_existing_index(store, obj[s].mgr)]
  /\ UNCHANGED <<store, storeDir, obj, dataDir, embedSetting, vectors, prompt, session, race, extractors>>

\* get_document_count, as the specification describes it, called on the
\* manager of a facade or of a query engine
ManagerGetDocumentCount(s) ==
  /\ obj[s].made
  /\ last' = [NoOp EXCEPT !.op = "get_document_count", !.who = s,
                          !.coll = obj[s].mgr, !.outcome = "ok",
                          !.before = get_document_count(store, obj[s].mgr)]
  /\ UNCHANGED <<store, storeDir, obj, dataDir, embedSetting, vectors, prompt, session, race, extractors>>

\* delete_collection, as the specification describes it, called on the
\* manager of a facade or of a query engine
ManagerDeleteCollection(s) ==
  /\ obj[s].made
  /\ \E d \in {delete_collection(store, obj[s].mgr)} :
       /\ store' = d.store
       /\ vectors' = Prune(vectors, d.store)
       /\ last' = [NoOp EXCEPT !.op = "delete_collection", !.who = s,
                               !.coll = obj[s].mgr,
                               !.outcome = IF d.err = None THEN "ok" ELSE d.err,
                               !.before = Held(store, obj[s].mgr)]
  /\ storeDir' = DirAfter(store')
  /\ UNCHANGED <<obj, dataDir, embedSetting, prompt, session, race, extractors>>

(* ----------------------- configuration resolvers ---------------------- *)
GetModelConfig(name) ==
  LET r == get_model_config(name) IN
  /\ last' = [NoOp EXCEPT !.op = "get_model_config", !.arg = name,
                          !.outcome = IF r.err = None THEN "ok" ELSE r.err,
                          !.cfg = IF r.err = None THEN r.val ELSE NoConfig]
  /\ UNCHANGED <<store, storeDir, obj, dataDir, embedSetting, vectors, prompt, session, race, extractors>>

GetFileTypes(name) ==
  LET r == get_file_types(name) IN
  /\ last' = [NoOp EXCEPT !.op = "get_file_types", !.arg = name,
                          !.outcome = IF r.err = None THEN "ok" ELSE r.err,
                          !.exts = IF r.err = None THEN r.val ELSE NoExts]
  /\ UNCHANGED <<store, storeDir, obj, dataDir, embedSetting, vectors, prompt, session, race, extractors>>

Next ==
  \/ \E f \in Facades : Construct(f)
  \/ \E f \in Facades : LoadDocuments(f)
  \/ \E s \in Slots : Query(s)
  \/ \E f \in Facades : DeleteIndex(f)
  \/ \E l \in Legacys : LegacyConstruct(l)
  \/ \E l \in Legacys : LegacyLoadDocuments(l)
  \/ \E e \in Engines : EngineConstruct(e)
  \/ ScriptCreateIndex
  \/ InspectDelete

Spec == Init /\ [][Next]_vars

\* the loaders on a directory that the generator fills, and the facade that
\* loads through its own loader
NextLoader ==
  \/ LoaderLoad
  \/ AddFileExtractor
  \/ GenerateTestDocs
  \/ \E f \in Facades : Construct(f)
  \/ \E f \in Facades : LoadDocuments(f)

SpecLoader == Init /\ [][NextLoader]_vars

\* the manager's count and delete of the specification, on a store that
\* constructors create collections in and the script fills
NextStoreApi ==
  \/ \E f \in Facades : Construct(f)
  \/ \E e \in Engines : EngineConstruct(e)
  \/ \E s \in Facades \cup Engines : ManagerGetDocumentCount(s)
  \/ \E s \in Facades \cup Engines : ManagerDeleteCollection(s)
  \/ ScriptCreateIndex

SpecStoreApi == Init /\ [][NextStoreApi]_vars

\* the configuration resolvers and the constructors that call them
NextConfig ==
  \/ \E n \in ModelNameInputs : GetModelConfig(n)
  \/ \E n \in FileTypeNameInputs : GetFileTypes(n)
  \/ \E f \in Facades : Construct(f)
  \/ \E l \in Legacys : LegacyConstruct(l)
  \/ \E e \in Engines : EngineConstruct(e)

SpecConfig == Init /\ [][NextConfig]_vars

\* managers built over every registered configuration, and the tool's delete
NextNaming ==
  \/ ManagerInit
  \/ InspectDelete

SpecNaming == Init /\ [][NextNaming]_vars

\* constructions over two configurations with different embedding models,
\* and the index builds
NextModels ==
  \/ \E f \in Facades : ConstructWith(f, MixModelInputs)
  \/ \E l \in Legacys : LegacyConstructWith(l, MixModelInputs)
  \/ \E f \in Facades : LoadDocuments(f)
  \/ \E l \in Legacys : LegacyLoadDocuments(l)

SpecModels == Init /\ [][NextModels]_vars

\* the manager's operations, with the script and the tool changing the store
NextManager ==
  \/ \E f \in Facades : Construct(f)
  \/ \E e \in Engines : EngineConstruct(e)
  \/ \E s \in Facades \cup Engines : GetExistingIndex(s)
  \/ \E f \in Facades : DeleteIndex(f)
  \/ ScriptCreateIndex
  \/ InspectDelete

SpecManager == Init /\ [][NextManager]_vars

\* the query command, in its runs that do not wait and in interactive mode,
\* with the script filling the store
NextCli ==
  \/ QueryCli
  \/ CliStart
  \/ CliInput
  \/ ScriptCreateIndex

SpecCli == Init /\ [][NextCli]_vars

\* the two run_pipeline commands and the facade's index-creation command
NextRun ==
  \/ RunPipeline
  \/ ExampleRunPipeline
  \/ ExampleCreateIndex
  \/ ScriptCreateIndex
  \/ InspectDelete

SpecRun == Init /\ [][NextRun]_vars

\* the inspection tool's commands on a store that the index-creation script
\* fills, also while the tool waits for an answer
NextTool ==
  \/ InspectMain
  \/ InspectAsk
  \/ InspectAnswer
  \/ ScriptCreateIndex

SpecTool == Init /\ [][NextTool]_vars

\* the web handler and a query engine, with the script and the tool changing
\* the store
NextHandler ==
  \/ \E h \in Handlers : HandlerConstruct(h)
  \/ \E h \in Handlers : HandleQuery(h)
  \/ \E e \in Engines : EngineConstruct(e)
  \/ \E e \in Engines : Query(e)
  \/ ScriptCreateIndex
  \/ InspectDelete

SpecHandler == Init /\ [][NextHandler]_vars

\* two facades on one store, each running load_documents once, statement
\* by statement
NextRace ==
  \/ \E f \in Racers : Construct(f)
  \/ \E f \in Racers : LoadCount(f)
  \/ \E f \in Racers : LoadRead(f)
  \/ \E f \in Racers : LoadBuild(f)
  \/ GenerateTestDocs

SpecRace == Init /\ [][NextRace]_vars

(* ------------------------------ properties ---------------------------- *)
Supported == SeqRange(QUERY_CONFIG.supported_response_modes)
IsFacadeLoad(l) == l.op = "load_documents" /\ l.who \in Facades
IsQuery(l) == l.op = "query"

\* C1: a facade's load_documents called directly after a load_documents
\* call of the same instance, nothing deleted in between, leaves the stored
\* document count as the first call left it and embeds nothing: create_index
\* is not invoked by the second call.
C1_LoadIdempotent ==
  [][ (IsFacadeLoad(last') /\ last'.had)
        => /\ Held(store', obj[last'.who].mgr) = Held(store, obj[last'.who].mgr)
           /\ last'.creates = 0
           /\ last'.embedded = 0 ]_vars

\* a facade on a collection that holds a document, next to a directory with
\* documents, has run load_documents twice in succession: both calls ended
\* at the count check, the collection holds what it held
C1_Witness ==
  /\ IsFacadeLoad(last) /\ last.had
  /\ last.outcome = "AttributeError" /\ last.path = "count"
  /\ last.before >= 1 /\ Held(store, obj[last.who].mgr) = last.before
  /\ SimpleDirectoryReader(dataDir, obj[last.who].file_types, DefaultExtractors, DefaultRecursive) >= 1
  /\ last.creates = 0 /\ last.embedded = 0

\* C2: on every call path no step adds items to a collection that already
\* holds at least one stored item.
C2_NeverReembedAnyPath ==
  [][ \A n \in Names : store[n] >= 1 => store'[n] <= store[n] ]_vars

\* C3: a query on a facade, legacy pipeline or query engine whose index is
\* not loaded fails with the no-index error for every question and mode,
\* and neither creates nor calls the delegated query engine.
C3_QueryWithoutIndexFails ==
  (IsQuery(last) /\ obj[last.who].index = None)
    => /\ last.outcome = "NoIndexLoadedError"
       /\ ~last.engineMade
       /\ last.engineCalls = 0

\* a query with an unsupported mode hit an object without an index
C3_Witness ==
  /\ IsQuery(last)
  /\ obj[last.who].index = None
  /\ last.mode = "bogus"
  /\ last.outcome = "NoIndexLoadedError"

\* C4: with an index loaded, a query with a supplied response mode outside
\* supported_response_modes fails with the unsupported-mode error and the
\* delegated query engine is neither created nor called.
C4_UnsupportedModeRejected ==
  (IsQuery(last) /\ obj[last.who].index # None
     /\ last.mode # None /\ last.mode \notin Supported)
    => /\ last.outcome = "UnsupportedResponseModeError"
       /\ ~last.engineMade
       /\ last.engineCalls = 0

\* a query with mode "bogus" was made on a loaded index
C4_Witness ==
  /\ IsQuery(last)
  /\ obj[last.who].index # None
  /\ last.mode = "bogus"
  /\ last.outcome = "UnsupportedResponseModeError"

\* C5: with an index loaded, a query without a mode runs with
\* default_response_mode, a query with a supported mode runs with exactly
\* that mode, and the mode handed to the query engine is always supported.
C5_ModeResolution ==
  (IsQuery(last) /\ obj[last.who].index # None)
    => /\ last.mode = None
            => last.engineMade
               /\ last.usedMode = QUERY_CONFIG.default_response_mode
       /\ last.mode \in Supported
            => last.engineMade /\ last.usedMode = last.mode
       /\ last.engineMade => last.usedMode \in Supported

\* a query ran with a supplied supported mode that is not the default
C5_Witness ==
  /\ IsQuery(last)
  /\ last.engineMade
  /\ last.mode = "refine"
  /\ last.usedMode = "refine"
  /\ last.outcome = "ok"

\* C6: get_model_config and get_file_types return exactly the registered
\* entry for every registered name, and fail with the configuration error,
\* returning nothing, for every other name.
C6_ResolversExact ==
  /\ last.op = "get_model_config"
       => IF last.arg \in DOMAIN MODEL_CONFIGS
            THEN last.outcome = "ok" /\ last.cfg = MODEL_CONFIGS[last.arg]
            ELSE last.outcome = "ConfigurationError" /\ last.cfg = NoConfig
  /\ last.op = "get_file_types"
       => IF last.arg \in DOMAIN FILE_TYPES
            THEN last.outcome = "ok" /\ last.exts = FILE_TYPES[last.arg]
            ELSE last.outcome = "ConfigurationError" /\ last.exts = NoExts

\* get_model_config was called with a name that is not registered
C6_Witness ==
  /\ last.op = "get_model_config"
  /\ last.arg \notin DOMAIN MODEL_CONFIGS
  /\ last.outcome = "ConfigurationError"

\* C7: after the manager's delete_collection succeeded, get_document_count
\* of that collection is 0, as it is for every collection that does not
\* exist.
C7_CountZeroAfterDelete ==
  /\ (last.op = "delete_collection" /\ last.outcome = "ok")
       => get_document_count(store, last.coll) = 0
  /\ (last.op = "get_document_count" /\ store[last.coll] = Absent)
       => last.before = 0
  /\ \A n \in Names : store[n] = Absent => get_document_count(store, n) = 0

\* the count of a collection that held items and was deleted has been asked
C7_Witness ==
  /\ last.op = "get_document_count"
  /\ store[last.coll] = Absent
  /\ last.before = 0
  /\ \E n \in Names : store[n] >= 1

\* C8: the manager's delete_collection on an absent collection fails with
\* the collection-not-found error and leaves the store as it was; on a
\* present collection it removes that collection with everything stored in
\* it, and no other collection.
C8_DeleteCollection ==
  [][ last'.op = "delete_collection"
        => IF store[last'.coll] = Absent
             THEN /\ last'.outcome = "CollectionNotFoundError"
                  /\ store' = store
             ELSE /\ last'.outcome = "ok"
                  /\ store'[last'.coll] = Absent
                  /\ \A n \in Names \ {last'.coll} : store'[n] = store[n] ]_vars

\* a delete reached a collection that was already gone
C8_Witness ==
  /\ last.op = "delete_collection"
  /\ last.outcome = "CollectionNotFoundError"
  /\ store[last.coll] = Absent

\* C9: delete_index delegates to the manager's delete and then clears the
\* index: after a delete_index that succeeded the collection is gone and the
\* index is None; if the manager's delete raises, the index is left as it
\* was; and an index that is None stays None, every query failing with the
\* no-index error, until a load_documents call of that instance sets it
\* again.
C9_DeleteIndexThenClear ==
  [][ /\ (last'.op = "delete_index" /\ last'.outcome = "ok")
           => /\ obj'[last'.who].index = None
              /\ store'[last'.arg] = Absent
      /\ (last'.op = "delete_index" /\ last'.outcome # "ok")
           => obj'[last'.who].index = obj[last'.who].index
      /\ \A f \in Facades :
           (obj[f].made /\ obj[f].index = None /\ obj'[f].index # None)
             => IsFacadeLoad(last') /\ last'.who = f
      /\ (IsQuery(last') /\ obj'[last'.who].index = None)
           => last'.outcome = "NoIndexLoadedError" ]_vars

\* a delete_index call on a collection that holds a document raised: the
\* index is as it was and the collection still holds the document
C9_Witness ==
  /\ last.op = "delete_index" /\ last.outcome = "AttributeError"
  /\ last.before >= 1 /\ store[last.arg] = last.before
  /\ obj[last.who].index = None

\* C10: once the index of a pipeline (the facade's or the legacy pipeline's)
\* is non-None, no load_documents or query call makes it None again,
\* whatever the call ends in: the only step that does is a successful
\* delete_index of that instance.
C10_BuiltUntilDeleted ==
  [][ \A p \in Facades \cup Legacys :
        (obj[p].index # None /\ obj'[p].index = None)
           => /\ last'.op = "delete_index"
              /\ last'.who = p
              /\ last'.outcome = "ok" ]_vars

\* a pipeline that had built its index called load_documents again, the
\* build failed, and the index is still there
C10_Witness ==
  /\ last.op = "load_documents" /\ last.who \in Legacys
  /\ last.rep /\ last.outcome = "ProviderError"
  /\ obj[last.who].index # None

\* the collection name the default policy gives each registered configuration
C11_ExpectedName ==
  [ default |-> "rag_collection_default",
    fast |-> "rag_collection_fast",
    legacy |-> "rag_collection_legacy",
    azure_default |-> "rag_collection_azure_default",
    azure_fast |-> "rag_collection_azure_fast" ]

\* C11: a manager built for the registered configuration c without an explicit
\* collection name works on the collection "rag_collection_" + c; a manager
\* built with the explicit name n works on exactly n, whatever c is; the
\* collection it works on exists after the construction
C11_CollectionNaming ==
  (last.op = "manager_init" /\ last.outcome = "ok") =>
    /\ last.arg \in DOMAIN MODEL_CONFIGS
    /\ (last.cname = None => last.coll = C11_ExpectedName[last.arg])
    /\ (last.cname # None => last.coll = last.cname)
    /\ store[last.coll] # Absent

\* a manager for azure_fast was built under the default policy after one
\* with the explicit name was built
C11_Witness ==
  /\ last.op = "manager_init" /\ last.outcome = "ok"
  /\ last.cname = None /\ last.arg = "azure_fast"
  /\ last.coll = "rag_collection_azure_fast"
  /\ store["rag_collection_azure_fast"] # Absent
  /\ store["test_documents"] # Absent
\* C12: after any sequence of constructions and index builds no collection
\* holds vectors produced by two different embedding models
C12_NoCrossModelMixing ==
  \A n \in AllNames : Cardinality(vectors[n]) <= 1
\* C13: get_existing_index returns no index exactly when the manager's
\* collection is absent from the store or holds zero items, returns an index
\* otherwise, and never changes the store
C13_GetExistingIndex ==
  [][last'.op = "get_existing_index" =>
       /\ store' = store /\ vectors' = vectors
       /\ last'.res \in {None, "Index"}
       /\ (last'.res = None) <=>
            (store[last'.coll] = Absent \/ store[last'.coll] = 0)]_vars

\* the facade's manager finds its collection deleted and returns no index,
\* while the engine holds the index its manager returned for a filled collection
C13_Witness ==
  /\ last.op = "get_existing_index" /\ last.who = "f1"
  /\ store[last.coll] = Absent /\ last.res = None
  /\ obj["e1"].made /\ obj["e1"].index = "Index"
  /\ store[obj["e1"].mgr] >= 1
\* C14: a loader's load_documents on a missing data directory fails with the
\* directory-not-found error and returns no document; the facade's
\* load_documents on a missing directory with an empty collection raises that
\* error, builds nothing and leaves its index and every collection as they were
C14_DirectoryNotFound ==
  [][/\ (last'.op = "loader_load" /\ ~dataDir.exists) =>
          /\ last'.outcome = "DirectoryNotFoundError"
          /\ last'.docs = 0
          /\ store' = store /\ obj' = obj
     /\ (/\ IsFacadeLoad(last') /\ ~dataDir.exists
         /\ Held(store, obj[last'.who].mgr) = 0) =>
          /\ last'.outcome = "DirectoryNotFoundError"
          /\ last'.creates = 0 /\ last'.embedded = 0
          /\ store' = store /\ obj' = obj
          /\ (obj[last'.who].index = None => obj'[last'.who].index = None)
          /\ Held(store', obj[last'.who].mgr) = 0]_vars

\* the existing data directory yields no document to a read that is not
\* recursive: no file in it has one of the extensions exts, or the files
\* that have yield none with the extractors fx
YieldsNothing(d, exts, fx) == d.exists /\ Documents(d, exts, fx, FALSE) = 0

\* C15: when the existing data directory yields no document, a loader's
\* load_documents returns an empty sequence without raising, and the facade's
\* load_documents on an empty collection returns normally, builds nothing and
\* leaves its index and every collection as they were
C15_EmptyLoadIsWarning ==
  [][/\ (last'.op = "loader_load" /\ last'.who = "engine_loader"
          /\ YieldsNothing(dataDir, last'.exts, extractors)) =>
          (last'.outcome = "ok" /\ last'.docs = 0)
     /\ (/\ IsFacadeLoad(last')
         /\ YieldsNothing(dataDir, obj[last'.who].file_types, DefaultExtractors)
         /\ Held(store, obj[last'.who].mgr) = 0) =>
          /\ last'.outcome = "ok"
          /\ last'.creates = 0 /\ last'.embedded = 0
          /\ store' = store /\ obj' = obj]_vars
\* C16: when an index build fails part-way, in a load_documents call or in
\* the index-creation script, the items stored before the failure stay in the
\* collection (nothing is rolled back), no other collection changes, and the
\* index of the pipeline that called is left as it was: None stays None
C16_PartialBuildStays ==
  [][/\ (last'.op = "load_documents" /\ last'.outcome = "ProviderError") =>
          LET n == obj[last'.who].mgr IN
          /\ last'.path = "build" /\ last'.creates = 1
          /\ store'[n] = IF store[n] = Absent THEN Absent
                                            ELSE store[n] + last'.embedded
          /\ \A m \in AllNames \ {n} : store'[m] = store[m]
          /\ obj'[last'.who].index = obj[last'.who].index
          /\ (obj[last'.who].index = None => obj'[last'.who].index = None)
     /\ (last'.op = "create_index_script" /\ last'.outcome = "ProviderError") =>
          LET n == last'.arg IN
          /\ store'[n] = Held(store, n) + last'.embedded
          /\ \A m \in AllNames \ {n} : store'[m] = store[m]
          /\ obj' = obj]_vars

\* a build failed after one of two documents: the collection holds that one
\* item and the pipeline that called has no index
C16_Witness ==
  /\ last.op = "load_documents" /\ last.outcome = "ProviderError"
  /\ dataDir.txt = 2 /\ last.embedded = 1
  /\ store[obj[last.who].mgr] = 1
  /\ obj[last.who].index = None
\* C17: a query whose delegated retrieval or generation call fails raises the
\* provider error after exactly one attempt, leaves the index and the stored
\* collections unchanged, and the same query can run afterwards
C17_QueryFailurePropagates ==
  [][(IsQuery(last') /\ last'.outcome = "ProviderError") =>
       /\ last'.engineMade /\ last'.engineCalls = 1
       /\ store' = store /\ vectors' = vectors /\ obj' = obj
       /\ obj'[last'.who].index # None
       /\ query(obj'[last'.who], last'.mode, TRUE).err = None]_vars

\* a query on a loaded index has failed in the delegated call
C17_Witness ==
  /\ IsQuery(last) /\ last.outcome = "ProviderError"
  /\ last.engineCalls = 1
  /\ obj[last.who].index # None
  /\ store[obj[last.who].mgr] >= 1

\* C18: every query that passes the index and mode checks builds a query
\* engine and invokes it exactly once, a repeat of the question and mode just
\* answered included, and leaves the object's state as it was: no answer is kept
C18_NoCaching ==
  [][(/\ IsQuery(last') /\ obj[last'.who].index # None
      /\ (last'.mode = None \/ last'.mode \in Supported)) =>
       /\ last'.engineMade /\ last'.engineCalls = 1
       /\ last'.outcome \in {"ok", "ProviderError"}
       /\ obj' = obj /\ store' = store]_vars

\* the question and mode just answered were asked again and the engine was
\* invoked again
C18_Witness ==
  /\ IsQuery(last) /\ last.rep /\ last.outcome = "ok"
  /\ last.mode = "refine"
  /\ last.engineMade /\ last.engineCalls = 1
\* C19: a run of the query CLI returns normally whatever happens; an error
\* raised while the engine is built (an unregistered model configuration) or
\* while a question is answered is caught: the error message is printed, the
\* traceback is printed exactly when --debug was given, and the collections
\* are listed; a failure inside the listing does not leave main either
C19_CliCatchesErrors ==
  last.op = "query_cli" =>
    /\ last.outcome = "ok"
    /\ (~last.listOnly /\ last.arg \notin DOMAIN MODEL_CONFIGS) =>
         last.caught = "ConfigurationError"
    /\ last.caught # None =>
         (last.shown /\ (last.trace <=> last.debug) /\ last.listed)
    /\ last.caught = None => (~last.shown /\ ~last.trace)

\* in interactive mode the engine was built on an empty collection; documents
\* were stored while the run waited for the question; the question raised the
\* no-index error, which was printed without traceback, and the listing that
\* followed failed inside list_available_collections
C19_Witness ==
  /\ last.op = "query_cli" /\ last.outcome = "ok" /\ last.had
  /\ last.caught = "NoIndexLoadedError"
  /\ store[last.coll] >= 1
  /\ ~last.debug /\ ~last.trace /\ last.shown
  /\ last.listed /\ last.listErr
  /\ session = NoSession

\* C20: for each of the flags --default, --legacy and --balanced, main of
\* run_pipeline gets past the construction of its pipelines and reaches
\* load_documents with the selected one
C20_RunPipelineReachesLoad ==
  last.op = "run_pipeline" => last.path \in {"load_documents", "query"}
\* C21: for every accepted model flag, main of examples/run_pipeline selects
\* the like-named model configuration ("default", "azure_default",
\* "azure_fast") and goes on to construct the pipeline with it
C21_FlagSelectsConfig ==
  last.op = "example_run_pipeline" =>
    (last.res = last.arg /\ last.path # "select")
\* a run of the tool that got as far as its command: main did not leave with
\* sys.exit(1) for a missing store directory, which changes nothing
C22_Ran(l) == l.op \in {"inspect_main", "inspect_ask"} /\ l.outcome # "exit1"

\* the effect C22 describes, for a deletion that is agreed to or not
C22_Effect(n, agreed, raised) ==
  LET removes == store[n] # Absent /\ agreed /\ ~raised IN
  /\ last'.outcome \in {"True", "False"}
  /\ (last'.outcome = "True") = removes
  /\ removes => store' = [store EXCEPT ![n] = Absent]
  /\ (store[n] = Absent \/ ~agreed) => store' = store

\* C22 as stated: the tool's delete_collection removes the named collection
\* and returns True exactly when the collection exists, the deletion is forced
\* or answered "y", and the store does not raise; otherwise it returns False
\* (it never raises), and for an absent collection or any other answer the set
\* of collections is left as it was
C22_DeleteOnlyOnY ==
  [][/\ (C22_Ran(last') /\ last'.op = "inspect_main" /\ last'.path = "delete") =>
          C22_Effect(last'.arg, TRUE, last'.raised)
     /\ (last'.op = "inspect_answer" /\ last'.path = "delete") =>
          C22_Effect(last'.arg, last'.answer = "y", last'.raised)]_vars

\* C22, amended: the same with the confirmation being any answer that is "y"
\* once lower-cased ("y" or "Y"); the collection has to exist when the answer
\* is given, and a name that is unknown when the tool is started ends the run
\* with False before any prompt
C22_DeleteStep ==
  /\ (last'.op \in {"inspect_main", "inspect_ask"} /\ ~C22_Ran(last')) =>
       (~storeDir /\ store' = store /\ prompt' = prompt)
  /\ (C22_Ran(last') /\ last'.op = "inspect_main" /\ last'.path = "delete") =>
       C22_Effect(last'.arg, TRUE, last'.raised)
  /\ (last'.op = "inspect_answer" /\ last'.path = "delete") =>
       C22_Effect(last'.arg, Lower(last'.answer) = "y", last'.raised)
  /\ (C22_Ran(last') /\ last'.op = "inspect_ask" /\ last'.path = "delete") =>
       /\ store' = store
       /\ (store[last'.arg] = Absent) = (last'.outcome = "False")
       /\ (store[last'.arg] = Absent) = (prompt'.pc = "idle")

C22_InspectDelete == [][C22_DeleteStep]_vars

\* the answer "Y" was given for a collection that got a second document while
\* the tool waited, and the collection was deleted
C22_Witness ==
  /\ last.op = "inspect_answer" /\ last.path = "delete"
  /\ last.answer = "Y" /\ last.outcome = "True"
  /\ last.before = 1 /\ last.docs = 2 /\ store[last.arg] = Absent
  /\ prompt = NoPrompt
\* C23: handle_query never raises; it answers success exactly when the engine
\* was obtained (kept from before, or built now) and its query returned, and
\* answers failure with the error otherwise, the no-index error of an engine
\* built on a missing or empty collection included
C23_HandleQueryNeverRaises ==
  last.op = "handle_query" =>
    LET h == obj[last.who]
        obtained == last.had \/ last.fail = "none" IN
    /\ ~last.raised
    /\ last.success = (obtained /\ h.index # None /\ last.ok)
    /\ last.success = (last.caught = None)
    /\ ~obtained => last.caught = "InitError"
    /\ (obtained /\ h.index = None) => last.caught = "NoIndexLoadedError"

C23_Witness ==
  /\ last.op = "handle_query" /\ ~last.success /\ ~last.raised
  /\ last.caught = "NoIndexLoadedError" /\ last.built = 1
  /\ store[obj[last.who].mgr] = 0

\* C24: the handler builds its engine lazily and once: a call that finds an
\* engine keeps that engine and constructs nothing, a call that finds none
\* tries to construct one, and after a failed construction the handler still
\* has none
C24_HandleStep ==
  \A h \in Handlers :
    (last'.op = "handle_query" /\ last'.who = h) =>
      /\ obj[h].made => (obj'[h] = obj[h] /\ last'.built = 0 /\ ~last'.tried)
      /\ ~obj[h].made =>
           /\ last'.tried
           /\ last'.built = (IF last'.fail = "none" THEN 1 ELSE 0)
           /\ obj'[h].made = (last'.fail = "none")
           /\ last'.fail # "none" => obj'[h] = obj[h]

C24_LazyOnce == [][C24_HandleStep]_vars

C24_Witness ==
  /\ last.op = "handle_query" /\ last.had /\ last.built = 0
  /\ last.success /\ obj[last.who].made
\* C25: every index build embeds with the embedding model of the instance
\* that performs it: the vectors a load_documents call adds to its collection
\* come from the model of that instance's own configuration, whichever
\* instance was constructed last
C25_BuildStep ==
  \A s \in Facades \cup Legacys :
    (last'.op = "load_documents" /\ last'.who = s /\ last'.embedded > 0) =>
      (vectors'[obj[s].mgr] \ vectors[obj[s].mgr]) \subseteq
        {EmbeddingOf(obj[s].cfg)}

C25_BuildUsesOwnModel == [][C25_BuildStep]_vars
C27_ConstructStep ==
  \A f \in Facades :
    (last'.op = "construct" /\ last'.who = f) =>
      /\ (last'.arg \notin DOMAIN MODEL_CONFIGS) =>
            last'.outcome = "ConfigurationError"
      /\ (last'.outcome = "ConfigurationError") =>
            /\ store' = store
            /\ embedSetting' = embedSetting
            /\ ~obj'[f].made

C27_ConfigFailsBeforeStore == [][C27_ConstructStep]_vars

C27_Witness ==
  /\ last.op = "construct" /\ last.who \in Facades
  /\ last.outcome = "ConfigurationError" /\ last.arg = "images"
  /\ ~obj[last.who].made
  /\ embedSetting # None
  /\ store["rag_collection_default"] = Absent
\* C28: the facade's collection_name attribute equals the name of the
\* collection its manager reads and writes, also for a pipeline constructed
\* without an explicit collection name
C28_FacadeNameIsManagerName ==
  \A f \in Facades : obj[f].made => obj[f].collection_name = obj[f].mgr

\* C29: right after a manager is constructed for name n (by a facade or by a
\* query engine) the store holds collection n, created empty
\* if it was absent and left as it was otherwise; a collection leaves the
\* store only through a deleting operation, so get_existing_index meets an
\* absent collection only after such a deletion
C29_ManagerStep ==
  /\ \A s \in Facades \cup Engines :
       (last'.op = "construct" /\ last'.who = s /\ last'.outcome = "ok") =>
         LET n == obj'[s].mgr IN
         /\ store'[n] = (IF store[n] = Absent THEN 0 ELSE store[n])
         /\ \A m \in AllNames \ {n} : store'[m] = store[m]
  /\ \A n \in AllNames :
       (store[n] # Absent /\ store'[n] = Absent) =>
         (last'.op = "inspect_delete" /\ last'.arg = n)

C29_ConstructorCreatesCollection == [][C29_ManagerStep]_vars

\* a query engine finds its collection absent: the tool deleted it after the
\* engine was built
C29_Witness ==
  /\ last.op = "get_existing_index" /\ last.who \in Engines
  /\ last.res = None /\ store[last.coll] = Absent
  /\ obj[last.who].made
\* C30: a query engine decides in its constructor whether an index is loaded
\* (none for a missing or empty collection) and no later operation changes
\* that: with no index every query fails with the no-index error whatever the
\* collection holds by then, with an index no query fails with that error;
\* the same holds for the engine a handler keeps
C30_EngineStep ==
  /\ \A e \in Engines \cup Handlers :
       obj[e].made => (obj'[e].made /\ obj'[e].index = obj[e].index)
  /\ \A e \in Engines :
       /\ (last'.op = "construct" /\ last'.who = e /\ last'.outcome = "ok") =>
            (obj'[e].index = None) =
              (store[obj'[e].mgr] = Absent \/ store[obj'[e].mgr] = 0)
       /\ (last'.op = "query" /\ last'.who = e) =>
            (obj[e].index = None) = (last'.outcome = "NoIndexLoadedError")
  /\ \A h \in Handlers :
       (last'.op = "handle_query" /\ last'.who = h /\ last'.had) =>
         (obj[h].index = None) = (last'.caught = "NoIndexLoadedError")

C30_IndexDecidedOnce == [][C30_EngineStep]_vars

\* an engine built on an empty or missing collection still fails with the
\* no-index error after the collection was populated
C30_Witness ==
  /\ last.op = "query" /\ last.who \in Engines
  /\ last.outcome = "NoIndexLoadedError"
  /\ obj[last.who].index = None
  /\ store[obj[last.who].mgr] >= 1
====
